---- MODULE Spec2Model ----
(* Model of the external-application connection manager of the pipeline     *)
(* manager frontend (ExternalApplicationManager.js).                        *)
(*                                                                          *)
(* JavaScript runs one macrotask at a time: a timer callback, a user event  *)
(* or the arrival of a backend response runs, together with every promise   *)
(* continuation it unblocks, until each async function involved is          *)
(* suspended at a fetch or has returned.  One action of this model is one   *)
(* such macrotask.  `await fetch(..)` followed by `await response.text()`   *)
(* is one suspension: no shared state is written between the two.           *)
EXTENDS Bags, FiniteSets, Integers, Sequences, TLC

(* ---------------------------------------------------------------------- *)
(* Bounds                                                                 *)
(* ---------------------------------------------------------------------- *)
\* user-invoked operations that may be awaiting a response at the same time
MaxForeground == 2
\* status probes (checkStatus invocations) that may be unfinished at once
MaxPoll == 2
\* the same limit on status probes in the runs where the interface starts one
\* operation at a time (SerialSpec, LiveSpec)
MaxSerialPoll == 1

(* ---------------------------------------------------------------------- *)
(* Constants of the program                                               *)
(* ---------------------------------------------------------------------- *)
Null == 0
OK == 200
BadRequest == 400
ServiceUnavailable == 503

\* statuses a backend response may carry: the three the code branches on
\* and one status outside every branch
StatusCodes == {OK, BadRequest, 500, ServiceUnavailable}

\* response.ok of the fetch API
ResponseOk(status) == status >= 200 /\ status <= 299

\* response bodies (response.text()): a text that is not JSON, and two JSON
\* documents, one that the editor accepts and one that it reports errors for
NotJson == "{not json"
GoodDocument == "{good}"
BadDocument == "{bad}"
Bodies == {NotJson, GoodDocument, BadDocument}
\* the text of a response that carries a message for the user
ServerMessage == "server message"

\* the action argument of requestDataflowAction
DataflowActions == {"run", "validate"}

(* ---------------------------------------------------------------------- *)
(* Frames of the async call stacks: <<function, line of its await>>       *)
(* ---------------------------------------------------------------------- *)
fOpenTCP == <<"openTCP", 28>>
fRequestSpecification == <<"requestSpecification", 42>>
fRequestDataflowAction == <<"requestDataflowAction", 91>>
fImportDataflow == <<"importDataflow", 116>>
fCheckStatusProbe == <<"checkStatus", 143>>
fCheckStatusRecover == <<"checkStatus", 145>>
fInvokeFetchAction == <<"invokeFetchAction", 156>>
fInitializeConnectionOpen == <<"initializeConnection", 190>>
fInitializeConnectionSpec == <<"initializeConnection", 192>>

\* the operations that issue a foreground request
Operations == {fOpenTCP, fRequestSpecification, fRequestDataflowAction, fImportDataflow}

VARIABLES
    externalApplicationConnected, \* the session flag
    idStatusInterval,             \* id of the poll timer, Null when stopped
    intervals,                    \* timers created by setInterval and not cleared
    specification,                \* the specification the editor holds
    dataflow,                     \* the graph the editor holds
    pending,                      \* bag of suspended async call stacks
    step,                         \* what the last macrotask was
    events,                       \* what the last macrotask did, in order
    connectsSinceTick             \* history: connect requests issued by checkStatus
                                  \* on an outage seen while connected, since the last tick

vars == <<externalApplicationConnected, idStatusInterval, intervals, specification,
          dataflow, pending, step, events, connectsSinceTick>>

\* the node model of NodeFactory.js, which the connection manager never touches
VARIABLES
    interfaces,                   \* the interface list a node type is declared with
    properties,                   \* the property list a node type is declared with
    nodeType,                     \* what NodeFactory made of the two lists
    instance,                     \* a live node of that type
    lastCall                      \* the last call on the factory or the node, with its result

nodeVars == <<interfaces, properties, nodeType, instance, lastCall>>

\* the graphs of the editor
VARIABLES
    template,                     \* the template of a subgraph
    graph                         \* the top-level graph, which holds the subgraph node

graphVars == <<template, graph>>

(* ---------------------------------------------------------------------- *)
(* The manager's and the editor's state as one record, threaded through   *)
(* the code of a macrotask                                                *)
(* ---------------------------------------------------------------------- *)
Cur ==
    [connected |-> externalApplicationConnected,
     id |-> idStatusInterval,
     intervals |-> intervals,
     specification |-> specification,
     dataflow |-> dataflow,
     events |-> <<>>]

Emit(s, e) == [s EXCEPT !.events = Append(@, e)]

\* alertBus.$emit('displayAlert', msg [, progress]); msg is a list of lines
Alert(s, msg) == Emit(s, [type |-> "alert", msg |-> msg, progress |-> FALSE])
AlertProgress(s, msg) == Emit(s, [type |-> "alert", msg |-> msg, progress |-> TRUE])

\* fetchGET(url) / fetchPOST(url, ..): the request leaves
Fetch(s, url) == Emit(s, [type |-> "fetch", url |-> url])

(* ---------------------------------------------------------------------- *)
(* startStatusInterval / stopStatusInterval                               *)
(* ---------------------------------------------------------------------- *)
\* setInterval returns an id no live timer has
FreshInterval(s) == CHOOSE i \in 1..(Cardinality(s.intervals) + 1) :
                        /\ i \notin s.intervals
                        /\ \A j \in 1..(i - 1) : j \in s.intervals

\* startStatusInterval creating a timer whether or not one is recorded
startStatusIntervalUnguarded(s) ==
    [s EXCEPT !.id = FreshInterval(s),
              !.intervals = @ \cup {FreshInterval(s)}]

startStatusInterval(s) ==
    IF s.id = Null
    THEN [s EXCEPT !.id = FreshInterval(s),
                   !.intervals = @ \cup {FreshInterval(s)}]
    ELSE s

stopStatusInterval(s) ==
    IF s.id # Null
    THEN [s EXCEPT !.intervals = @ \ {s.id}, !.id = Null]
    ELSE s

(* ---------------------------------------------------------------------- *)
(* The editor (EditorManager), the collaborator behind the manager        *)
(* ---------------------------------------------------------------------- *)
\* JSON.parse: throws SyntaxError on a text that is not JSON
Parses(data) == data # NotJson
JSONparse(data) == [json |-> data]

\* what the editor holds before anything is loaded
InitialDocument == [json |-> "{}"]

validateSpecification(spec) ==
    IF spec = JSONparse(BadDocument) THEN <<"specification error">> ELSE <<>>

updateEditorSpecification(s, spec) ==
    Emit([s EXCEPT !.specification = spec],
         [type |-> "call", fn |-> "updateEditorSpecification"])

\* loadDataflow returns the discrepancy messages of the nodes it could not load
loadDataflowErrors(doc) ==
    IF doc = JSONparse(BadDocument) THEN <<"dataflow error">> ELSE <<>>

loadDataflow(s, doc) ==
    Emit([s EXCEPT !.dataflow = doc], [type |-> "call", fn |-> "loadDataflow"])

(* ---------------------------------------------------------------------- *)
(* The operations, from the point where their response has arrived        *)
(* ---------------------------------------------------------------------- *)
openTCP(s, status, data) ==
    LET s1 == IF ResponseOk(status) THEN [s EXCEPT !.connected = TRUE] ELSE s
    IN  [s |-> Alert(s1, <<data>>), threw |-> FALSE]

\* requestSpecification with the `return` of its catch block left out
requestSpecificationNoReturn(s, status, data) ==
    IF status = OK
    THEN LET s0 == IF Parses(data)
                   THEN s
                   ELSE Alert(s, <<"Not a proper JSON file.", "SyntaxError">>)
             spec == IF Parses(data) THEN JSONparse(data) ELSE InitialDocument
             errors == validateSpecification(spec)
             s1 == Emit(s0, [type |-> "call", fn |-> "validateSpecification"])
             s2 == IF errors # <<>>
                   THEN Alert(s1, errors)
                   ELSE Alert(updateEditorSpecification(s1, spec), <<"Loaded successfully">>)
         IN  [s |-> Alert(s2, <<"Specification loaded">>), threw |-> FALSE]
    ELSE IF status = ServiceUnavailable
    THEN [s |-> Alert([s EXCEPT !.connected = FALSE], <<data>>), threw |-> FALSE]
    ELSE IF status = BadRequest
    THEN [s |-> Alert(s, <<data>>), threw |-> FALSE]
    ELSE [s |-> Alert(s, <<"Specification loaded">>), threw |-> FALSE]

\* requestSpecification applying the specification whatever the validation says
requestSpecificationAppliesInvalid(s, status, data) ==
    IF status = OK
    THEN IF ~Parses(data)
         THEN [s |-> Alert(s, <<"Not a proper JSON file.", "SyntaxError">>), threw |-> FALSE]
         ELSE LET spec == JSONparse(data)
                  errors == validateSpecification(spec)
                  s1 == Emit(s, [type |-> "call", fn |-> "validateSpecification"])
                  s2 == IF errors # <<>> THEN Alert(s1, errors) ELSE s1
                  s3 == Alert(updateEditorSpecification(s2, spec), <<"Loaded successfully">>)
              IN  [s |-> Alert(s3, <<"Specification loaded">>), threw |-> FALSE]
    ELSE IF status = ServiceUnavailable
    THEN [s |-> Alert([s EXCEPT !.connected = FALSE], <<data>>), threw |-> FALSE]
    ELSE IF status = BadRequest
    THEN [s |-> Alert(s, <<data>>), threw |-> FALSE]
    ELSE [s |-> Alert(s, <<"Specification loaded">>), threw |-> FALSE]

requestSpecification(s, status, data) ==
    IF status = OK
    THEN IF ~Parses(data)
         \* JSON.parse throws nothing but SyntaxError
         THEN [s |-> Alert(s, <<"Not a proper JSON file.", "SyntaxError">>), threw |-> FALSE]
         ELSE LET spec == JSONparse(data)
                  errors == validateSpecification(spec)
                  s1 == Emit(s, [type |-> "call", fn |-> "validateSpecification"])
                  s2 == IF errors # <<>>
                        THEN Alert(s1, errors)
                        ELSE Alert(updateEditorSpecification(s1, spec), <<"Loaded successfully">>)
              IN  [s |-> Alert(s2, <<"Specification loaded">>), threw |-> FALSE]
    ELSE IF status = ServiceUnavailable
    THEN [s |-> Alert([s EXCEPT !.connected = FALSE], <<data>>), threw |-> FALSE]
    ELSE IF status = BadRequest
    THEN [s |-> Alert(s, <<data>>), threw |-> FALSE]
    ELSE [s |-> Alert(s, <<"Specification loaded">>), threw |-> FALSE]

\* requestDataflowAction taking every response that is not OK for a disconnect
requestDataflowActionDisconnectsOnError(s, status, data) ==
    LET s1 == Alert(s, <<data>>)
    IN  [s |-> IF status # OK THEN [s1 EXCEPT !.connected = FALSE] ELSE s1,
         threw |-> FALSE]

requestDataflowAction(s, status, data) ==
    LET s1 == Alert(s, <<data>>)
    IN  [s |-> IF status = ServiceUnavailable THEN [s1 EXCEPT !.connected = FALSE] ELSE s1,
         threw |-> FALSE]

\* importDataflow leaving the session flag alone on 503
importDataflowKeepsConnected(s, status, data) ==
    IF status = OK
    THEN IF ~Parses(data)
         THEN [s |-> Emit(s, [type |-> "throw", error |-> "SyntaxError"]), threw |-> TRUE]
         ELSE LET errors == loadDataflowErrors(JSONparse(data))
                  s1 == loadDataflow(s, JSONparse(data))
              IN  [s |-> Alert(s1, IF errors # <<>> THEN errors ELSE <<"Imported dataflow">>),
                   threw |-> FALSE]
    ELSE IF status \in {ServiceUnavailable, BadRequest}
    THEN [s |-> Alert(s, <<data>>), threw |-> FALSE]
    ELSE [s |-> Alert(s, <<"Imported dataflow">>), threw |-> FALSE]

importDataflow(s, status, data) ==
    IF status = OK
    THEN IF ~Parses(data)
         \* JSON.parse(data) throws inside the async function: nothing catches it
         THEN [s |-> Emit(s, [type |-> "throw", error |-> "SyntaxError"]), threw |-> TRUE]
         ELSE LET errors == loadDataflowErrors(JSONparse(data))
                  s1 == loadDataflow(s, JSONparse(data))
              IN  [s |-> Alert(s1, IF errors # <<>> THEN errors ELSE <<"Imported dataflow">>),
                   threw |-> FALSE]
    ELSE IF status = ServiceUnavailable
    THEN [s |-> Alert([s EXCEPT !.connected = FALSE], <<data>>), threw |-> FALSE]
    ELSE IF status = BadRequest
    THEN [s |-> Alert(s, <<data>>), threw |-> FALSE]
    ELSE [s |-> Alert(s, <<"Imported dataflow">>), threw |-> FALSE]

(* ---------------------------------------------------------------------- *)
(* The operations, up to their first await.  suspended is FALSE when the  *)
(* function returned before issuing a request.                            *)
(* ---------------------------------------------------------------------- *)
openTCPBegin(s) == [s |-> Fetch(s, "connect"), suspended |-> TRUE]

requestSpecificationBegin(s) == [s |-> Fetch(s, "request_specification"), suspended |-> TRUE]

\* requestDataflowAction raising its in-progress alert once the request has left
requestDataflowActionBeginAlertsLate(s, action, saved) ==
    IF ~saved
    THEN [s |-> s, suspended |-> FALSE]
    ELSE LET s1 == Fetch(s, "dataflow_action_request")
         IN  [s |-> IF action = "run" THEN AlertProgress(s1, <<"Running dataflow">>) ELSE s1,
              suspended |-> TRUE]

\* saved: JSON.stringify(saveDataflow()) is a non-empty text
requestDataflowActionBegin(s, action, saved) ==
    IF ~saved
    THEN [s |-> s, suspended |-> FALSE]
    ELSE LET s1 == IF action = "run" THEN AlertProgress(s, <<"Running dataflow">>) ELSE s
         IN  [s |-> Fetch(s1, "dataflow_action_request"), suspended |-> TRUE]

\* file: the file input holds a file
importDataflowBegin(s, file) ==
    IF ~file
    THEN [s |-> s, suspended |-> FALSE]
    ELSE [s |-> Fetch(s, "import_dataflow"), suspended |-> TRUE]

(* ---------------------------------------------------------------------- *)
(* invokeFetchAction: the code before and after `await fetchCall(..)`     *)
(* ---------------------------------------------------------------------- *)
invokeFetchActionBefore(s) == stopStatusInterval(s)

invokeFetchActionAfter(s) == startStatusInterval(s)

(* ---------------------------------------------------------------------- *)
(* initializeConnection, up to its first await: the connect request of    *)
(* the wrapped openTCP.  Yields the state and the frames that stay        *)
(* suspended, innermost last.                                             *)
(* ---------------------------------------------------------------------- *)
initializeConnection(s) ==
    LET s1 == [s EXCEPT !.connected = FALSE]
        s2 == AlertProgress(s1, <<"Waiting for the application to connect...">>)
        s3 == invokeFetchActionBefore(s2)
    IN  [s |-> openTCPBegin(s3).s,
         stack |-> <<fInitializeConnectionOpen, fInvokeFetchAction, fOpenTCP>>]

\* checkStatus comparing the status of the probe with the wrong code
checkStatusWrongCode(s, status) ==
    IF status = BadRequest
    THEN LET r == initializeConnection(invokeFetchActionBefore(s))
         IN  [s |-> r.s, stack |-> <<fCheckStatusRecover, fInvokeFetchAction>> \o r.stack]
    ELSE [s |-> s, stack |-> <<>>]

\* checkStatus after its probe returned
checkStatus(s, status) ==
    IF status = ServiceUnavailable
    THEN LET r == initializeConnection(invokeFetchActionBefore(s))
         IN  [s |-> r.s, stack |-> <<fCheckStatusRecover, fInvokeFetchAction>> \o r.stack]
    ELSE [s |-> s, stack |-> <<>>]

(* ---------------------------------------------------------------------- *)
(* Return: the innermost frame of stack has just been handed the result   *)
(* of its await; run the callers until one suspends again or all returned *)
(* ---------------------------------------------------------------------- *)
RECURSIVE Return(_, _)
Return(stack, s) ==
    IF stack = <<>>
    THEN [s |-> s, stack |-> <<>>]
    ELSE LET top == stack[Len(stack)]
             rest == SubSeq(stack, 1, Len(stack) - 1)
         IN  IF top = fInvokeFetchAction
             THEN Return(rest, invokeFetchActionAfter(s))
             ELSE IF top = fInitializeConnectionOpen /\ s.connected
             THEN [s |-> requestSpecificationBegin(invokeFetchActionBefore(s)).s,
                   stack |-> rest \o <<fInitializeConnectionSpec, fInvokeFetchAction,
                                       fRequestSpecification>>]
             ELSE Return(rest, s)

\* the response (status, data) reaches the fetch the stack is suspended at
Resume(stack, status, data, s) ==
    LET top == stack[Len(stack)]
        rest == SubSeq(stack, 1, Len(stack) - 1)
    IN  IF top = fCheckStatusProbe
        THEN checkStatus(s, status)
        ELSE LET r == CASE top = fOpenTCP -> openTCP(s, status, data)
                        [] top = fRequestSpecification -> requestSpecification(s, status, data)
                        [] top = fRequestDataflowAction -> requestDataflowAction(s, status, data)
                        [] top = fImportDataflow -> importDataflow(s, status, data)
             IN  IF r.threw
                 \* the rejection passes through every awaiting caller: none has a catch
                 THEN [s |-> r.s, stack |-> <<>>]
                 ELSE Return(rest, r.s)

(* ---------------------------------------------------------------------- *)
(* Bookkeeping                                                            *)
(* ---------------------------------------------------------------------- *)
Commit(s) ==
    /\ externalApplicationConnected' = s.connected
    /\ idStatusInterval' = s.id
    /\ intervals' = s.intervals
    /\ specification' = s.specification
    /\ dataflow' = s.dataflow
    /\ events' = s.events

Suspend(bag, stack) == IF stack = <<>> THEN bag ELSE bag (+) SetToBag({stack})

Count(S) == BagCardinality([st \in S |-> pending[st]])

\* suspended stacks that began with a timer tick
PollStacks == {st \in BagToSet(pending) : st[1][1] = "checkStatus"}
\* suspended stacks that began with a call from the interface
UserStacks == {st \in BagToSet(pending) : st[1][1] # "checkStatus"}
\* suspended stacks waiting for the response of a foreground operation
OperationStacks == {st \in BagToSet(pending) : st[Len(st)] \in Operations}

StepOf(kind, stack, status, data) ==
    [kind |-> kind, stack |-> stack, status |-> status, data |-> data]

(* ---------------------------------------------------------------------- *)
(* Init and the actions                                                   *)
(* ---------------------------------------------------------------------- *)
Init ==
    /\ externalApplicationConnected = FALSE
    /\ idStatusInterval = Null
    /\ intervals = {}
    /\ specification = InitialDocument
    /\ dataflow = InitialDocument
    /\ pending = EmptyBag
    /\ step = StepOf("init", <<>>, 0, "")
    /\ events = <<>>
    /\ connectsSinceTick = 0
    /\ interfaces = <<>>
    /\ properties = <<>>
    /\ nodeType = [built |-> FALSE]
    /\ instance = [created |-> FALSE]
    /\ lastCall = [op |-> "none"]
    /\ template = [built |-> FALSE]
    /\ graph = [built |-> FALSE]

\* the interface calls invokeFetchAction(op, ..)
Invoke(op, action, ready) ==
    /\ Count(UserStacks) < MaxForeground
    /\ LET s0 == invokeFetchActionBefore(Cur)
           frame == CASE op = "openTCP" -> fOpenTCP
                      [] op = "requestSpecification" -> fRequestSpecification
                      [] op = "requestDataflowAction" -> fRequestDataflowAction
                      [] op = "importDataflow" -> fImportDataflow
           b == CASE op = "openTCP" -> openTCPBegin(s0)
                  [] op = "requestSpecification" -> requestSpecificationBegin(s0)
                  [] op = "requestDataflowAction" -> requestDataflowActionBegin(s0, action, ready)
                  [] op = "importDataflow" -> importDataflowBegin(s0, ready)
           r == IF b.suspended
                THEN [s |-> b.s, stack |-> <<fInvokeFetchAction, frame>>]
                ELSE Return(<<fInvokeFetchAction>>, b.s)
       IN  /\ Commit(r.s)
           /\ pending' = Suspend(pending, r.stack)
           /\ step' = StepOf("invoke", <<fInvokeFetchAction, frame>>, 0, action)
    /\ UNCHANGED connectsSinceTick
    /\ UNCHANGED <<nodeVars, graphVars>>

\* the interface calls initializeConnection() once the page is set up
Connect ==
    /\ Count(UserStacks) < MaxForeground
    /\ LET r == initializeConnection(Cur)
       IN  /\ Commit(r.s)
           /\ pending' = Suspend(pending, r.stack)
           /\ step' = StepOf("connect", r.stack, 0, "")
    /\ UNCHANGED connectsSinceTick
    /\ UNCHANGED <<nodeVars, graphVars>>

\* the poll timer fires: () => this.checkStatus()
Tick ==
    /\ idStatusInterval \in intervals
    /\ Count(PollStacks) < MaxPoll
    /\ Commit(Fetch(Cur, "get_status"))
    /\ pending' = Suspend(pending, <<fCheckStatusProbe>>)
    /\ step' = StepOf("tick", <<fCheckStatusProbe>>, 0, "")
    /\ connectsSinceTick' = 0
    /\ UNCHANGED <<nodeVars, graphVars>>

\* the backend answers the request the stack waits for
Respond(stack, status, data) ==
    /\ BagIn(stack, pending)
    /\ step' = StepOf("response", stack, status, data)
    /\ LET r == Resume(stack, status, data, Cur)
       IN  /\ Commit(r.s)
           /\ pending' = Suspend(pending (-) SetToBag({stack}), r.stack)
    /\ connectsSinceTick' =
          IF stack = <<fCheckStatusProbe>> /\ status = ServiceUnavailable
             /\ externalApplicationConnected
          THEN connectsSinceTick + 1
          ELSE connectsSinceTick
    /\ UNCHANGED <<nodeVars, graphVars>>

\* what the backend may answer to the request a stack waits for: the body of a
\* get_status response is never read, the body of an OK response to
\* request_specification or import_dataflow is a document, every other body
\* is a message for the user
Responses(stack) ==
    LET top == stack[Len(stack)]
    IN  IF top = fCheckStatusProbe
        THEN {<<st, "">> : st \in StatusCodes}
        ELSE IF top \in {fRequestSpecification, fImportDataflow}
        THEN {<<OK, b>> : b \in Bodies}
             \cup {<<st, ServerMessage>> : st \in StatusCodes \ {OK}}
        ELSE {<<st, ServerMessage>> : st \in StatusCodes}

UserInvoke ==
    \/ Invoke("openTCP", "", TRUE)
    \/ Invoke("requestSpecification", "", TRUE)
    \/ \E action \in DataflowActions, saved \in BOOLEAN :
          Invoke("requestDataflowAction", action, saved)
    \/ \E file \in BOOLEAN : Invoke("importDataflow", "", file)

BackendResponse ==
    \E stack \in BagToSet(pending) : \E resp \in Responses(stack) :
        Respond(stack, resp[1], resp[2])

Next ==
    \/ UserInvoke
    \/ Connect
    \/ Tick
    \/ BackendResponse

Spec == Init /\ [][Next]_vars

(* ---------------------------------------------------------------------- *)
(* Vocabulary of the properties                                           *)
(* ---------------------------------------------------------------------- *)
Top(stack) == stack[Len(stack)]

\* a foreground operation invoked from the interface awaits its response
UserOperationStacks == {st \in OperationStacks : st[1][1] # "checkStatus"}

\* the macrotask that led to this state handled the response to frame
Handled(st, frame) == st.kind = "response" /\ Top(st.stack) = frame

\* the three operations that read the external application's state
SessionOperations == {fRequestSpecification, fRequestDataflowAction, fImportDataflow}

HandledSessionOperation(st) ==
    st.kind = "response" /\ Top(st.stack) \in SessionOperations

Alerts(evs) == {evs[i] : i \in {j \in DOMAIN evs : evs[j].type = "alert"}}
Calls(evs) == {evs[i].fn : i \in {j \in DOMAIN evs : evs[j].type = "call"}}

(* ---------------------------------------------------------------------- *)
(* C1..C5: the pause/resume discipline of the poll timer                  *)
(* ---------------------------------------------------------------------- *)
\* C1: while an operation wrapped by invokeFetchAction awaits its response,
\* the poll timer is stopped (idStatusInterval is null).
C1_TimerStoppedWhileInFlight == OperationStacks # {} => idStatusInterval = Null

\* C2: at most one foreground operation awaits a response at any time.
C2_OneForegroundOperation == Count(OperationStacks) <= 1

\* C3: when an operation run through invokeFetchAction has ended, normally or
\* by an exception, and no operation is in flight any more, the poll timer runs.
C3_PollingResumedAfterOperation ==
    [][(step'.kind = "response" /\ Top(step'.stack) \in Operations
        /\ BagCardinality(pending') < BagCardinality(pending)
        /\ OperationStacks' = {})
       => idStatusInterval' # Null]_vars

\* C4: a get_status response that reports the application unavailable is not
\* acted upon while a foreground operation of the user is in flight.
C4_ProbeNotActedInFlight ==
    [][(step'.kind = "response" /\ step'.stack = <<fCheckStatusProbe>>
        /\ step'.status = ServiceUnavailable)
       => UserOperationStacks = {}]_vars

\* C5: between two poll ticks, checkStatus answers outages seen while connected
\* with at most one connect request.
C5_OneConnectPerTick == connectsSinceTick <= 1

(* ---------------------------------------------------------------------- *)
(* C6: recovery by polling, under fair scheduling                         *)
(* ---------------------------------------------------------------------- *)
\* every stack a macrotask can leave suspended
AllStacks ==
    {<<fInvokeFetchAction, op>> : op \in Operations}
    \cup {<<fCheckStatusProbe>>,
          <<fInitializeConnectionOpen, fInvokeFetchAction, fOpenTCP>>,
          <<fInitializeConnectionSpec, fInvokeFetchAction, fRequestSpecification>>,
          <<fCheckStatusRecover, fInvokeFetchAction, fInitializeConnectionOpen,
            fInvokeFetchAction, fOpenTCP>>,
          <<fCheckStatusRecover, fInvokeFetchAction, fInitializeConnectionSpec,
            fInvokeFetchAction, fRequestSpecification>>}

\* the backend lets every connect request succeed; of the documents, which play
\* no part in the session, it sends the one the editor accepts
ResponsesConnecting(stack) ==
    IF Top(stack) = fOpenTCP
    THEN {<<OK, ServerMessage>>}
    ELSE {resp \in Responses(stack) : resp[2] # BadDocument}

Answer(stack) == \E resp \in ResponsesConnecting(stack) : Respond(stack, resp[1], resp[2])

BackendAnswer == \E stack \in BagToSet(pending) : Answer(stack)

\* the interface starts an operation only when none of its own is in flight,
\* and at most MaxSerialPoll probes are unfinished
InvokeSerial == UserStacks = {} /\ UserInvoke
ConnectSerial == UserStacks = {} /\ Connect
TickSerial == Count(PollStacks) < MaxSerialPoll /\ Tick

NextSerial ==
    \/ InvokeSerial
    \/ ConnectSerial
    \/ TickSerial
    \/ BackendResponse

SerialSpec == Init /\ [][NextSerial]_vars

NextLive ==
    \/ InvokeSerial
    \/ ConnectSerial
    \/ TickSerial
    \/ BackendAnswer

\* requests by the way they were started: from the interface, as a probe, and
\* the two requests of a recovery started by checkStatus
AnswerUser == \E stack \in UserStacks : Answer(stack)
AnswerProbe == Answer(<<fCheckStatusProbe>>)
AnswerRecoveryOpen ==
    Answer(<<fCheckStatusRecover, fInvokeFetchAction, fInitializeConnectionOpen,
             fInvokeFetchAction, fOpenTCP>>)
AnswerRecoverySpec ==
    Answer(<<fCheckStatusRecover, fInvokeFetchAction, fInitializeConnectionSpec,
             fInvokeFetchAction, fRequestSpecification>>)

\* setInterval fires a running timer again and again, and every request the
\* backend holds is answered
LiveSpec ==
    /\ Init
    /\ [][NextLive]_vars
    /\ WF_vars(TickSerial)
    /\ WF_vars(AnswerUser)
    /\ WF_vars(AnswerProbe)
    /\ WF_vars(AnswerRecoveryOpen)
    /\ WF_vars(AnswerRecoverySpec)

\* a session operation has just set connected to false on a 503 response
DisconnectedByOperation ==
    HandledSessionOperation(step) /\ step.status = ServiceUnavailable

\* a probe was answered with something else than 503 while connected was false
ProbeMissedOutage ==
    /\ Handled(step, fCheckStatusProbe)
    /\ step.status # ServiceUnavailable
    /\ ~externalApplicationConnected

\* C6 as stated: if poll ticks keep firing (requests return and connect
\* requests succeed by LiveSpec), a disconnect recorded by a session operation
\* is followed by connected becoming true again.
C6_RecoveryByPolling ==
    []<><<TickSerial>>_vars => (DisconnectedByOperation ~> externalApplicationConnected)

\* C6 amended: the same, provided every status probe answered while connected
\* is false reports the application unavailable (503).
C6_RecoveryWhenProbeReportsOutage ==
    ([]<><<TickSerial>>_vars /\ []~ProbeMissedOutage)
        => (DisconnectedByOperation ~> externalApplicationConnected)

\* the connect request of a recovery started by checkStatus has succeeded
C6_Witness ==
    /\ step.kind = "response"
    /\ step.stack = <<fCheckStatusRecover, fInvokeFetchAction, fInitializeConnectionOpen,
                      fInvokeFetchAction, fOpenTCP>>
    /\ externalApplicationConnected

(* ---------------------------------------------------------------------- *)
(* C7..C10: what the session operations do with a response                *)
(* ---------------------------------------------------------------------- *)
ModelUnchanged == specification' = specification /\ dataflow' = dataflow

\* C7: an OK response to request_specification whose body is not JSON leads to
\* no call of validateSpecification or updateEditorSpecification, leaves the
\* model and the connected flag as they were, and raises an alert that
\* contains "Not a proper JSON file.".
C7_MalformedSpecificationRejected ==
    [][(Handled(step', fRequestSpecification) /\ step'.status = OK
        /\ step'.data = NotJson)
       => /\ Calls(events') \cap {"validateSpecification", "updateEditorSpecification"} = {}
          /\ ModelUnchanged
          /\ externalApplicationConnected' = externalApplicationConnected
          /\ \E a \in Alerts(events') : a.msg[1] = "Not a proper JSON file."]_vars

C7_Witness ==
    /\ Handled(step, fRequestSpecification)
    /\ step.status = OK
    /\ step.data = NotJson

\* C8: requestSpecification calls updateEditorSpecification exactly when the
\* response is OK, its body parses and validateSpecification reports no error;
\* then the editor holds the received specification, otherwise the one it held;
\* validation errors are raised in an alert and the model stays as it was.
C8_SpecificationAppliedIffValid ==
    [][Handled(step', fRequestSpecification)
       => LET parsed == step'.status = OK /\ Parses(step'.data)
              errors == IF parsed THEN validateSpecification(JSONparse(step'.data)) ELSE <<>>
              accepted == parsed /\ errors = <<>>
          IN  /\ ("updateEditorSpecification" \in Calls(events')) <=> accepted
              /\ accepted => specification' = JSONparse(step'.data)
              /\ ~accepted => ModelUnchanged
              /\ (parsed /\ errors # <<>>)
                    => \E a \in Alerts(events') : a.msg = errors]_vars

C8_Witness ==
    /\ Handled(step, fRequestSpecification)
    /\ step.status = OK
    /\ step.data = BadDocument
    /\ specification = JSONparse(GoodDocument)

\* C9: a 503 response to requestSpecification, requestDataflowAction or
\* importDataflow sets connected to false, raises an alert with the server's
\* message and leaves the model as it was.
C9_UnavailableDisconnects ==
    [][(HandledSessionOperation(step') /\ step'.status = ServiceUnavailable)
       => /\ externalApplicationConnected' = FALSE
          /\ \E a \in Alerts(events') : a.msg = <<step'.data>>
          /\ ModelUnchanged]_vars

C9_Witness ==
    /\ Handled(step, fImportDataflow)
    /\ step.status = ServiceUnavailable
    /\ ~externalApplicationConnected
    /\ dataflow = JSONparse(GoodDocument)

\* C10: a 400 response to requestSpecification, requestDataflowAction or
\* importDataflow leaves the connected flag and the model as they were and the
\* poll timer as invokeFetchAction alone leaves it; the one alert it raises
\* carries the server's detail.
C10_BadRequestChangesNothing ==
    [][(HandledSessionOperation(step') /\ step'.status = BadRequest)
       => /\ externalApplicationConnected' = externalApplicationConnected
          /\ ModelUnchanged
          /\ idStatusInterval' = startStatusInterval(Cur).id
          /\ intervals' = startStatusInterval(Cur).intervals
          /\ events' = <<[type |-> "alert", msg |-> <<step'.data>>, progress |-> FALSE]>>]_vars

C10_Witness ==
    /\ HandledSessionOperation(step)
    /\ step.status = BadRequest
    /\ externalApplicationConnected
    /\ idStatusInterval # Null

(* ---------------------------------------------------------------------- *)
(* C11, C12: importDataflow on a malformed body; the notices of           *)
(* requestDataflowAction                                                  *)
(* ---------------------------------------------------------------------- *)
Throws(evs) == {evs[i] : i \in {j \in DOMAIN evs : evs[j].type = "throw"}}

\* C11: an OK response to import_dataflow whose body is not JSON leaves the
\* dataflow and the connected flag as they were, the poll timer runs again
\* afterwards, an alert names the parse exception, and no exception leaves
\* importDataflow unhandled.
C11_MalformedDataflowReported ==
    [][(Handled(step', fImportDataflow) /\ step'.status = OK /\ step'.data = NotJson)
       => /\ ModelUnchanged
          /\ externalApplicationConnected' = externalApplicationConnected
          /\ idStatusInterval' # Null
          /\ \E a \in Alerts(events') : \E i \in DOMAIN a.msg : a.msg[i] = "SyntaxError"
          /\ Throws(events') = {}]_vars

\* the positions of the in-progress alerts and of the requests among the events
ProgressAlertsAt(evs) == {i \in DOMAIN evs : evs[i].type = "alert" /\ evs[i].progress}
FetchesAt(evs) == {i \in DOMAIN evs : evs[i].type = "fetch"}

\* requestDataflowAction was called and has issued its request
IssuedDataflowAction(st, evs) ==
    st.kind = "invoke" /\ Top(st.stack) = fRequestDataflowAction /\ FetchesAt(evs) # {}

\* C12: requestDataflowAction('run') raises the in-progress alert
\* 'Running dataflow' before it issues its request; for any other action it
\* raises no in-progress alert; when the response has arrived it raises an
\* alert with the text of the response, which is not an in-progress alert.
C12_ProgressNoticeThenResult ==
    [][/\ IssuedDataflowAction(step', events')
          => IF step'.data = "run"
             THEN /\ Cardinality(ProgressAlertsAt(events')) = 1
                  /\ \A i \in ProgressAlertsAt(events') :
                        /\ events'[i].msg = <<"Running dataflow">>
                        /\ \A j \in FetchesAt(events') : i < j
             ELSE Alerts(events') = {}
       /\ Handled(step', fRequestDataflowAction)
          => /\ events'[1] = [type |-> "alert", msg |-> <<step'.data>>, progress |-> FALSE]
             /\ ProgressAlertsAt(events') = {}]_vars

C12_Witness ==
    /\ IssuedDataflowAction(step, events)
    /\ step.data = "run"
    /\ ProgressAlertsAt(events) = {1}
    /\ FetchesAt(events) = {2}

TypeOK ==
    /\ externalApplicationConnected \in BOOLEAN
    /\ idStatusInterval \in 0..2
    /\ intervals \subseteq 1..2
    /\ IsABag(pending)
    /\ BagToSet(pending) \subseteq AllStacks

(* ====================================================================== *)
(* NodeFactory.js: the node types and the nodes made of a specification   *)
(* ====================================================================== *)
\* JavaScript values are written as their literal text; a field an object does
\* not have is a field the record does not have
undefined == "undefined"
null == "null"

\* longest interface list a node type is declared with
MaxInterfaces == 2
\* largest bound of an array range
MaxIndex == 2

(* ---------------------------------------------------------------------- *)
(* Strings and objects of JavaScript                                      *)
(* ---------------------------------------------------------------------- *)
\* s.slice(from) and s.slice(0, to), positions counted from 0
slice(s, from) == SubSeq(s, from + 1, Len(s))
sliceTo(s, to) == IF to < 0 THEN SubSeq(s, 1, Len(s) + to) ELSE SubSeq(s, 1, to)

\* s.indexOf(c): the first position of the character c, -1 when there is none
indexOf(s, c) ==
    LET at == {i \in 1..Len(s) : SubSeq(s, i, i) = c}
    IN  IF at = {} THEN -1 ELSE (CHOOSE i \in at : \A j \in at : i <= j) - 1

\* an object is the sequence of its entries [key, value] in insertion order,
\* no key twice
ObjectKeys(obj) == {obj[i].key : i \in DOMAIN obj}
hasOwnProperty(obj, key) == key \in ObjectKeys(obj)
Get(obj, key) == obj[CHOOSE i \in DOMAIN obj : obj[i].key = key].value

\* obj[key] = value
Put(obj, key, value) ==
    IF hasOwnProperty(obj, key)
    THEN [i \in DOMAIN obj |-> IF obj[i].key = key THEN [key |-> key, value |-> value]
                                                    ELSE obj[i]]
    ELSE Append(obj, [key |-> key, value |-> value])

\* Object.fromEntries(entries)
RECURSIVE fromEntries(_)
fromEntries(entries) ==
    IF entries = <<>>
    THEN <<>>
    ELSE LET last == entries[Len(entries)]
         IN  Put(fromEntries(SubSeq(entries, 1, Len(entries) - 1)), last.key, last.value)

\* { ...a, ...b }
Spread(a, b) == fromEntries(a \o b)

(* ---------------------------------------------------------------------- *)
(* createInterface, parseIntefaces                                        *)
(* ---------------------------------------------------------------------- *)
\* what the constructor returned by createInterface builds: a NodeInterface,
\* which is a port and has no value; io.type is a string
createInterface(io, name) ==
    [name |-> name,
     value |-> undefined,
     port |-> TRUE,
     type |-> <<io.type>>,
     componentName |-> "NodeInterface",
     maxConnectionsCount |-> IF "maxConnectionsCount" \in DOMAIN io
                             THEN io.maxConnectionsCount ELSE undefined,
     direction |-> io.direction,
     side |-> IF "side" \in DOMAIN io
              THEN io.side
              ELSE IF io.direction = "output" THEN "right" ELSE "left"]

\* the loop over an array range running up to its upper bound inclusive
ExpandedNamesInclusive(io) ==
    IF "array" \in DOMAIN io
    THEN [k \in 1..(IF io.array[2] >= io.array[1] THEN io.array[2] - io.array[1] + 1 ELSE 0) |->
             io.name \o "[" \o ToString(io.array[1] + k - 1) \o "]"]
    ELSE <<io.name>>

\* the names an entry of the interface list stands for
ExpandedNames(io) ==
    IF "array" \in DOMAIN io
    THEN [k \in 1..(IF io.array[2] > io.array[1] THEN io.array[2] - io.array[1] ELSE 0) |->
             io.name \o "[" \o ToString(io.array[1] + k - 1) \o "]"]
    ELSE <<io.name>>

\* the loop over the interface list: tempIO after the entries of ios
RECURSIVE collectInterfaces(_)
collectInterfaces(ios) ==
    IF ios = <<>>
    THEN [input |-> <<>>, inout |-> <<>>, output |-> <<>>]
    ELSE LET io == ios[Len(ios)]
             tempIO == collectInterfaces(SubSeq(ios, 1, Len(ios) - 1))
             names == ExpandedNames(io)
             made == [k \in DOMAIN names |->
                         [key |-> names[k], value |-> createInterface(io, names[k])]]
         IN  [tempIO EXCEPT ![io.direction] = Spread(@, made)]

\* the maps keyed by the bare names of the ports
renamedWithoutPrefix(prefix, obj) == obj

\* Object.entries(obj).map(([name, constructor]) => [`${prefix}_${name}`, constructor])
renamed(prefix, obj) ==
    fromEntries([i \in DOMAIN obj |->
                    [key |-> prefix \o "_" \o obj[i].key, value |-> obj[i].value]])

\* parseIntefaces looking for the name of an inout among the inputs only
parseIntefacesKeepsInoutBesideOutput(ios) ==
    LET tempIO == collectInterfaces(ios)
        filteredInouts ==
            SelectSeq(tempIO.inout, LAMBDA e : ~hasOwnProperty(tempIO.input, e.key))
        renamedInputs == renamed("input", tempIO.input)
        renamedInouts == renamed("inout", filteredInouts)
        renamedOutputs == renamed("output", tempIO.output)
    IN  [inputs |-> Spread(renamedInouts, renamedInputs),
         outputs |-> renamedOutputs]

parseIntefaces(ios) ==
    LET tempIO == collectInterfaces(ios)
        filteredInouts ==
            SelectSeq(tempIO.inout,
                      LAMBDA e : ~hasOwnProperty(tempIO.output, e.key)
                                 /\ ~hasOwnProperty(tempIO.input, e.key))
        renamedInputs == renamed("input", tempIO.input)
        renamedInouts == renamed("inout", filteredInouts)
        renamedOutputs == renamed("output", tempIO.output)
    IN  [inputs |-> Spread(renamedInouts, renamedInputs),
         outputs |-> renamedOutputs]

(* ---------------------------------------------------------------------- *)
(* parseProperties                                                        *)
(* ---------------------------------------------------------------------- *)
PropertyTypes ==
    {"constant", "text", "number", "integer", "select", "checkbox", "slider", "list"}

componentNameOf(propType) ==
    CASE propType = "constant" -> "TextInterface"
      [] propType = "text" -> "InputInterface"
      [] propType = "number" -> "NumberInterface"
      [] propType = "integer" -> "IntegerInterface"
      [] propType = "select" -> "SelectInterface"
      [] propType = "checkbox" -> "CheckboxInterface"
      [] propType = "slider" -> "SliderInterface"
      [] propType = "list" -> "ListInterface"

\* element.toString() of a number or a string
toString(element) ==
    IF SubSeq(element, 1, 1) = "'" THEN element ELSE "'" \o element \o "'"

\* what the constructor stored for a recognized property builds
propertyInterface(p) ==
    LET declared == IF "default" \in DOMAIN p THEN p.default ELSE undefined
        propDef == IF p.type = "slider" /\ declared = undefined THEN p.min ELSE declared
        common == [name |-> p.name, value |-> propDef, port |-> FALSE,
                   componentName |-> componentNameOf(p.type)]
    IN  CASE p.type = "select" ->
               [name |-> common.name, value |-> common.value, port |-> FALSE,
                componentName |-> common.componentName,
                items |-> [i \in DOMAIN p.values |-> toString(p.values[i])]]
          [] p.type = "slider" ->
               [name |-> common.name, value |-> common.value, port |-> FALSE,
                componentName |-> common.componentName, min |-> p.min, max |-> p.max]
          [] p.type = "list" ->
               [name |-> common.name, value |-> common.value, port |-> FALSE,
                componentName |-> common.componentName, dtype |-> p.dtype]
          [] OTHER -> common

\* parseProperties giving up on the list at the first type it does not recognize
RECURSIVE parsePropertiesStopsAtUnknown(_)
parsePropertiesStopsAtUnknown(ps) ==
    IF ps = <<>>
    THEN [tempInputs |-> <<>>, console |-> <<>>]
    ELSE LET p == ps[Len(ps)]
             r == parsePropertiesStopsAtUnknown(SubSeq(ps, 1, Len(ps) - 1))
         IN  IF r.console # <<>>
             THEN r
             ELSE IF p.type \in PropertyTypes
             THEN [r EXCEPT !.tempInputs = Put(@, "property_" \o p.name, propertyInterface(p))]
             ELSE [r EXCEPT !.console = Append(@, <<p.type, "- input type is not recognized.">>)]

\* parseProperties keeping the properties under the keys of input ports
RECURSIVE parsePropertiesAsInputs(_)
parsePropertiesAsInputs(ps) ==
    IF ps = <<>>
    THEN [tempInputs |-> <<>>, console |-> <<>>]
    ELSE LET p == ps[Len(ps)]
             r == parsePropertiesAsInputs(SubSeq(ps, 1, Len(ps) - 1))
         IN  IF p.type \in PropertyTypes
             THEN [r EXCEPT !.tempInputs = Put(@, "input_" \o p.name, propertyInterface(p))]
             ELSE [r EXCEPT !.console = Append(@, <<p.type, "- input type is not recognized.">>)]

\* tempInputs, and what console.error was called with, after the properties ps
RECURSIVE parseProperties(_)
parseProperties(ps) ==
    IF ps = <<>>
    THEN [tempInputs |-> <<>>, console |-> <<>>]
    ELSE LET p == ps[Len(ps)]
             r == parseProperties(SubSeq(ps, 1, Len(ps) - 1))
         IN  IF p.type \in PropertyTypes
             THEN [r EXCEPT !.tempInputs = Put(@, "property_" \o p.name, propertyInterface(p))]
             ELSE [r EXCEPT !.console = Append(@, <<p.type, "- input type is not recognized.">>)]

(* ---------------------------------------------------------------------- *)
(* NodeFactory: the node type, and a node made of it                      *)
(* ---------------------------------------------------------------------- *)
NodeFactory(name, displayName, ios, ps) ==
    [built |-> TRUE,
     type |-> name,
     title |-> displayName,
     inputs |-> Spread(parseIntefaces(ios).inputs, parseProperties(ps).tempInputs),
     outputs |-> parseIntefaces(ios).outputs,
     console |-> parseProperties(ps).console]

(* ---------------------------------------------------------------------- *)
(* The specifications a node type is built from                           *)
(* ---------------------------------------------------------------------- *)
Directions == {"input", "inout", "output"}

\* array ranges [lo, hi): the empty ones and the ones that reach MaxIndex,
\* starting at 0 and at 1
ArrayRanges == {<<lo, hi>> : lo \in {0, 1}, hi \in {0, 1, MaxIndex}} \cap
               {r \in (0..MaxIndex) \X (0..MaxIndex) : r[1] <= r[2] /\ r[2] \in {r[1], MaxIndex}}

\* entries of an interface list: with and without an array range, with the
\* optional fields side and maxConnectionsCount left out or given
InterfaceEntries ==
    {[name |-> "a", direction |-> d, type |-> "t1"] : d \in Directions}
    \cup {[name |-> "b", direction |-> d, type |-> "t1"] : d \in Directions}
    \cup {[name |-> "a", direction |-> d, type |-> "t2", side |-> "right",
           maxConnectionsCount |-> "1"] : d \in Directions}
    \cup {[name |-> "a", direction |-> d, type |-> "t1", array |-> r] :
             d \in Directions, r \in ArrayRanges}
    \cup {[name |-> "a", direction |-> d, type |-> "t2", side |-> "right",
           maxConnectionsCount |-> "1", array |-> r] :
             d \in Directions, r \in ArrayRanges}

\* the sequences over S of length at most n
RECURSIVE SeqUpTo(_, _)
SeqUpTo(S, n) ==
    IF n = 0
    THEN {<<>>}
    ELSE LET shorter == SeqUpTo(S, n - 1)
         IN  shorter \cup {Append(q, e) : q \in shorter, e \in S}

\* a specification names a port once in each direction
DeclaredOnce(ios) ==
    \A i, j \in DOMAIN ios :
        (i # j /\ ios[i].direction = ios[j].direction)
            => \A k \in DOMAIN ExpandedNames(ios[i]), l \in DOMAIN ExpandedNames(ios[j]) :
                   ExpandedNames(ios[i])[k] # ExpandedNames(ios[j])[l]

InterfaceLists == {ios \in SeqUpTo(InterfaceEntries, MaxInterfaces) : DeclaredOnce(ios)}

PropertyNames == {"a", "b"}

\* a property of every recognized type and of one that is not, with and
\* without a default
PropertyWithoutDefault(n, ty) ==
    CASE ty = "select" -> [name |-> n, type |-> ty, values |-> <<"1", "'x'">>]
      [] ty = "slider" -> [name |-> n, type |-> ty, min |-> "0", max |-> "9"]
      [] ty = "list" -> [name |-> n, type |-> ty, dtype |-> "'string'"]
      [] OTHER -> [name |-> n, type |-> ty]

PropertyWithDefault(n, ty) ==
    CASE ty = "select" -> [name |-> n, type |-> ty, default |-> "5", values |-> <<"1", "'x'">>]
      [] ty = "slider" ->
           [name |-> n, type |-> ty, default |-> "5", min |-> "0", max |-> "9"]
      [] ty = "list" -> [name |-> n, type |-> ty, default |-> "5", dtype |-> "'string'"]
      [] OTHER -> [name |-> n, type |-> ty, default |-> "5"]

PropertyEntries ==
    {PropertyWithoutDefault(n, ty) : n \in PropertyNames, ty \in PropertyTypes \cup {"matrix"}}
    \cup {PropertyWithDefault(n, ty) : n \in PropertyNames, ty \in PropertyTypes \cup {"matrix"}}

\* a specification names a property once
PropertyLists ==
    {ps \in SeqUpTo(PropertyEntries, Cardinality(PropertyNames)) :
        \A i, j \in DOMAIN ps : i # j => ps[i].name # ps[j].name}

\* the node types of the runs that follow one node: ports of every direction,
\* an array, a side that is not the default, a name with an underscore, and
\* properties with and without a value
SampleInterfaces ==
    <<[name |-> "a", direction |-> "input", type |-> "t1"],
      [name |-> "a", direction |-> "inout", type |-> "t1", array |-> <<0, 2>>],
      [name |-> "out_1", direction |-> "output", type |-> "t2", side |-> "left"]>>

SampleProperties ==
    <<[name |-> "a", type |-> "text"],
      [name |-> "b", type |-> "slider", min |-> "0", max |-> "9"]>>

(* ---------------------------------------------------------------------- *)
(* FactorySpec: a node type is built from an interface list and a         *)
(* property list                                                          *)
(* ---------------------------------------------------------------------- *)
ManagerIdle ==
    /\ externalApplicationConnected = FALSE
    /\ idStatusInterval = Null
    /\ intervals = {}
    /\ specification = InitialDocument
    /\ dataflow = InitialDocument
    /\ pending = EmptyBag
    /\ step = StepOf("init", <<>>, 0, "")
    /\ events = <<>>
    /\ connectsSinceTick = 0

FactoryInit ==
    /\ ManagerIdle
    /\ \/ interfaces \in InterfaceLists /\ properties = <<>>
       \/ /\ interfaces \in {<<>>, SampleInterfaces}
                              \cup {ios \in InterfaceLists :
                                       Len(ios) = 1 /\ "array" \notin DOMAIN ios[1]}
          /\ properties \in PropertyLists
    /\ nodeType = [built |-> FALSE]
    /\ instance = [created |-> FALSE]
    /\ lastCall = [op |-> "none"]
    /\ template = [built |-> FALSE]
    /\ graph = [built |-> FALSE]

\* the specification loader calls NodeFactory for the node type
Define ==
    /\ ~nodeType.built
    /\ nodeType' = NodeFactory("Filter", "Filter node", interfaces, properties)
    /\ lastCall' = [op |-> "NodeFactory"]
    /\ UNCHANGED <<interfaces, properties, instance>>
    /\ UNCHANGED <<vars, graphVars>>

FactoryNext == Define

FactorySpec == FactoryInit /\ [][FactoryNext]_<<vars, nodeVars, graphVars>>

(* ---------------------------------------------------------------------- *)
(* Vocabulary of the properties of a node type                            *)
(* ---------------------------------------------------------------------- *)
KeyOf(direction, name) == direction \o "_" \o name
IndexedName(name, j) == name \o "[" \o ToString(j) \o "]"

\* the port names an entry of the specification declares
NamesOf(io) ==
    IF "array" \in DOMAIN io
    THEN {IndexedName(io.name, j) : j \in io.array[1]..(io.array[2] - 1)}
    ELSE {io.name}

Entries(ios) == {ios[i] : i \in DOMAIN ios}

\* the name n is declared by an input or an output entry of the list
DeclaredInputOrOutput(ios, n) ==
    \E e \in Entries(ios) : e.direction \in {"input", "output"} /\ n \in NamesOf(e)

\* the keys of the ports of the built node type, and the port under a key
InputPortKeys == {nodeType.inputs[i].key : i \in {j \in DOMAIN nodeType.inputs :
                                                    nodeType.inputs[j].value.port}}
OutputPortKeys == ObjectKeys(nodeType.outputs)
PortKeys == InputPortKeys \cup OutputPortKeys
PortAt(key) ==
    IF hasOwnProperty(nodeType.inputs, key)
    THEN Get(nodeType.inputs, key)
    ELSE Get(nodeType.outputs, key)

\* the port under KeyOf(io.direction, n) is the one the entry io describes
Inherits(io, n) ==
    LET port == PortAt(KeyOf(io.direction, n))
    IN  /\ port.name = n
        /\ port.type = <<io.type>>
        /\ port.direction = io.direction
        /\ port.side = IF "side" \in DOMAIN io THEN io.side
                       ELSE IF io.direction = "output" THEN "right" ELSE "left"
        /\ port.maxConnectionsCount = IF "maxConnectionsCount" \in DOMAIN io
                                      THEN io.maxConnectionsCount ELSE undefined

ArrayEntries(ios) == {e \in Entries(ios) : "array" \in DOMAIN e}

\* no port key of the direction of io stands for the bare name of io, or for an
\* index of it, that no entry of the list declares
NothingUndeclared(ios, io) ==
    \A n \in {io.name} \cup {IndexedName(io.name, j) : j \in 0..(MaxIndex + 1)} :
        KeyOf(io.direction, n) \in PortKeys
            => \E e \in Entries(ios) : e.direction = io.direction /\ n \in NamesOf(e)

C16_InoutDroppedOnCollision ==
    nodeType.built
        => \A io \in {e \in Entries(interfaces) : e.direction = "inout"} :
              \A n \in NamesOf(io) :
                 IF DeclaredInputOrOutput(interfaces, n)
                 THEN /\ KeyOf("inout", n) \notin PortKeys
                      /\ \A d \in {"input", "output"} :
                            KeyOf(d, n) \in PortKeys
                               <=> \E e \in Entries(interfaces) :
                                      e.direction = d /\ n \in NamesOf(e)
                      /\ \A d \in {"input", "output"} :
                            KeyOf(d, n) \in PortKeys => PortAt(KeyOf(d, n)).direction = d
                 ELSE /\ KeyOf("inout", n) \in InputPortKeys
                      /\ Inherits(io, n)

\* the inout entry comes first, the output entry of the same name after it
C16_Witness ==
    /\ nodeType.built
    /\ Len(interfaces) = 2
    /\ interfaces[1].direction = "inout" /\ interfaces[2].direction = "output"
    /\ NamesOf(interfaces[1]) = {"a"} /\ NamesOf(interfaces[2]) = {"a"}
    /\ PortKeys = {"output_a"}

DeclaredDefault(p) ==
    IF "default" \in DOMAIN p THEN p.default
    ELSE IF p.type = "slider" THEN p.min ELSE undefined

\* C18: a property of a type that is not recognized has no slot in the built
\* node type and is reported on the console; the node type is built all the
\* same, and every other property of the list has its slot under
\* property_{name}, holding its default.
C18_UnknownPropertyDropped ==
    lastCall.op = "NodeFactory"
        => /\ nodeType.built
           /\ \A i \in DOMAIN properties :
                 LET p == properties[i]
                     key == "property_" \o p.name
                 IN  IF p.type \in PropertyTypes
                     THEN /\ hasOwnProperty(nodeType.inputs, key)
                          /\ Get(nodeType.inputs, key).value = DeclaredDefault(p)
                          /\ ~Get(nodeType.inputs, key).port
                     ELSE /\ ~hasOwnProperty(nodeType.inputs, key)
                          /\ \E w \in DOMAIN nodeType.console : nodeType.console[w][1] = p.type

\* the property that is not recognized stands before one that is
C18_Witness ==
    /\ nodeType.built
    /\ Len(properties) = 2
    /\ properties[1].type = "matrix"
    /\ properties[2].type = "slider" /\ "default" \notin DOMAIN properties[2]
    /\ ObjectKeys(nodeType.inputs) = {"property_" \o properties[2].name}

(* ====================================================================== *)
(* A node of a built type: save and load                                  *)
(* ====================================================================== *)
\* the object r with the field f set to v
With(r, f, v) == [x \in DOMAIN r \cup {f} |-> IF x = f THEN v ELSE r[x]]

\* new node(): every constructor of the node type is called and the interface
\* it makes gets an id of its own
instantiate(obj, first) ==
    [i \in DOMAIN obj |->
        [key |-> obj[i].key,
         value |-> With(obj[i].value, "id", "i" \o ToString(first + i - 1))]]

newNode(nt) ==
    [created |-> TRUE,
     type |-> nt.type,
     id |-> "n1",
     title |-> nt.title,
     inputs |-> instantiate(nt.inputs, 1),
     outputs |-> instantiate(nt.outputs, Len(nt.inputs) + 1),
     position |-> "(0, 0)"]

\* Node.save of the editor library: this.parentSave()
parentSave(node) ==
    [type |-> node.type,
     id |-> node.id,
     title |-> node.title,
     position |-> node.position,
     inputs |-> [i \in DOMAIN node.inputs |->
                    [key |-> node.inputs[i].key,
                     value |-> [id |-> node.inputs[i].value.id,
                                value |-> node.inputs[i].value.value]]],
     outputs |-> [i \in DOMAIN node.outputs |->
                     [key |-> node.outputs[i].key,
                      value |-> [id |-> node.outputs[i].value.id,
                                 value |-> node.outputs[i].value.value]]]]

\* save writing the keys of the node down as the names
savedEntryKeepsPrefix(e) ==
    LET ioName == e.key
        ioState == e.value
    IN  IF ioState.port
        THEN [name |-> ioName,
              id |-> ioState.id,
              direction |-> ioState.direction,
              side |-> ioState.side]
        ELSE [name |-> ioName,
              id |-> ioState.id,
              value |-> IF ioState.value = undefined THEN null ELSE ioState.value]

\* one entry of { ...this.inputs, ...this.outputs } as save writes it down
savedEntry(e) ==
    LET ioName == e.key
        ioState == e.value
    IN  IF ioState.port
        THEN [name |-> slice(ioName, Len(ioState.direction) + 1),
              id |-> ioState.id,
              direction |-> ioState.direction,
              side |-> ioState.side]
        ELSE [name |-> slice(ioName, Len("property") + 1),
              id |-> ioState.id,
              value |-> IF ioState.value = undefined THEN null ELSE ioState.value]

\* save writing down the inputs of the node only
saveOfInputs(node) ==
    LET savedState == parentSave(node)
        all == node.inputs
        newInterfaces == [i \in DOMAIN SelectSeq(all, LAMBDA e : e.value.port) |->
                             savedEntry(SelectSeq(all, LAMBDA e : e.value.port)[i])]
        newProperties == [i \in DOMAIN SelectSeq(all, LAMBDA e : ~e.value.port) |->
                             savedEntry(SelectSeq(all, LAMBDA e : ~e.value.port)[i])]
    IN  [type |-> savedState.type,
         id |-> savedState.id,
         position |-> savedState.position,
         interfaces |-> newInterfaces,
         properties |-> newProperties,
         name |-> savedState.title]

save(node) ==
    LET savedState == parentSave(node)
        all == Spread(node.inputs, node.outputs)
        newInterfaces == [i \in DOMAIN SelectSeq(all, LAMBDA e : e.value.port) |->
                             savedEntry(SelectSeq(all, LAMBDA e : e.value.port)[i])]
        newProperties == [i \in DOMAIN SelectSeq(all, LAMBDA e : ~e.value.port) |->
                             savedEntry(SelectSeq(all, LAMBDA e : ~e.value.port)[i])]
    IN  [type |-> savedState.type,
         id |-> savedState.id,
         position |-> savedState.position,
         interfaces |-> newInterfaces,
         properties |-> newProperties,
         name |-> savedState.title]

(* ---------------------------------------------------------------------- *)
(* parseNodeState, detectDiscrepancies                                    *)
(* ---------------------------------------------------------------------- *)
\* newState.inputs and newState.outputs after the interfaces intfs
RECURSIVE parsedInterfaces(_)
parsedInterfaces(intfs) ==
    IF intfs = <<>>
    THEN [inputs |-> <<>>, outputs |-> <<>>]
    ELSE LET intf == intfs[Len(intfs)]
             r == parsedInterfaces(SubSeq(intfs, 1, Len(intfs) - 1))
         IN  IF intf.direction = "input" \/ intf.direction = "inout"
             THEN [r EXCEPT !.inputs = Put(@, intf.direction \o "_" \o intf.name, intf)]
             ELSE IF intf.direction = "output"
             THEN [r EXCEPT !.outputs = Put(@, intf.direction \o "_" \o intf.name, intf)]
             ELSE r

RECURSIVE parsedProperties(_, _)
parsedProperties(inputs, props) ==
    IF props = <<>>
    THEN inputs
    ELSE LET prop == props[Len(props)]
         IN  Put(parsedProperties(inputs, SubSeq(props, 1, Len(props) - 1)),
                 "property_" \o prop.name, prop)

parseNodeState(state) ==
    LET io == IF "interfaces" \in DOMAIN state
              THEN parsedInterfaces(state.interfaces)
              ELSE [inputs |-> <<>>, outputs |-> <<>>]
        inputs == IF "properties" \in DOMAIN state
                  THEN parsedProperties(io.inputs, state.properties)
                  ELSE io.inputs
    IN  [type |-> state.type,
         id |-> state.id,
         position |-> IF "position" \in DOMAIN state THEN state.position ELSE undefined,
         inputs |-> inputs,
         outputs |-> io.outputs,
         title |-> IF "name" \in DOMAIN state THEN state.name ELSE ""]

discrepancy(parsedState, ioName) ==
    LET direction == sliceTo(ioName, indexOf(ioName, "_"))
        name == slice(ioName, indexOf(ioName, "_") + 1)
    IN  "Node of name " \o parsedState.type \o " and id " \o parsedState.id
        \o " is corrupted. " \o "Interface named - " \o name \o " of direction - "
        \o direction \o " not found in specification!"

\* detectDiscrepancies reporting the declared interfaces the state leaves out too
detectDiscrepanciesBothWays(parsedState, inputs, outputs) ==
    LET incoming == Spread(parsedState.inputs, parsedState.outputs)
        declared == Spread(inputs, outputs)
        unknown == SelectSeq(incoming,
                             LAMBDA e : ~hasOwnProperty(inputs, e.key)
                                        /\ ~hasOwnProperty(outputs, e.key))
        missing == SelectSeq(declared, LAMBDA e : ~hasOwnProperty(incoming, e.key))
    IN  [i \in DOMAIN unknown |-> discrepancy(parsedState, unknown[i].key)]
        \o [i \in DOMAIN missing |-> discrepancy(parsedState, missing[i].key)]

detectDiscrepancies(parsedState, inputs, outputs) ==
    LET incoming == Spread(parsedState.inputs, parsedState.outputs)
        unknown == SelectSeq(incoming,
                             LAMBDA e : ~hasOwnProperty(inputs, e.key)
                                        /\ ~hasOwnProperty(outputs, e.key))
    IN  [i \in DOMAIN unknown |-> discrepancy(parsedState, unknown[i].key)]

(* ---------------------------------------------------------------------- *)
(* load                                                                   *)
(* ---------------------------------------------------------------------- *)
\* NodeInterface.load of the editor library
loadInterface(intf, ioState) ==
    With(With(intf, "id", ioState.id),
         "value", IF "value" \in DOMAIN ioState THEN ioState.value ELSE undefined)

\* the interfaces of obj that state names, loaded from it
loadInterfaces(obj, state) ==
    [i \in DOMAIN obj |->
        IF hasOwnProperty(state, obj[i].key)
        THEN [key |-> obj[i].key, value |-> loadInterface(obj[i].value, Get(state, obj[i].key))]
        ELSE obj[i]]

\* Node.load of the editor library, with the hook of its view: this.parentLoad(state)
parentLoad(node, state) ==
    [node EXCEPT !.id = state.id,
                 !.title = state.title,
                 !.position = IF state.position = undefined THEN "(0, 0)" ELSE state.position,
                 !.inputs = loadInterfaces(@, state.inputs),
                 !.outputs = loadInterfaces(@, state.outputs)]

\* this.inputs[ioName].side = ioState.side
setSide(obj, ioName, side) ==
    [i \in DOMAIN obj |->
        IF obj[i].key = ioName
        THEN [key |-> ioName, value |-> With(obj[i].value, "side", side)]
        ELSE obj[i]]

\* the sides assigned to the inputs of the node only
RECURSIVE assignSidesOfInputs(_, _)
assignSidesOfInputs(node, entries) ==
    IF entries = <<>>
    THEN node
    ELSE LET ioName == entries[Len(entries)].key
             ioState == entries[Len(entries)].value
             n == assignSidesOfInputs(node, SubSeq(entries, 1, Len(entries) - 1))
         IN  IF "direction" \in DOMAIN ioState /\ "side" \in DOMAIN ioState
                /\ (ioState.direction = "input" \/ ioState.direction = "inout")
             THEN [n EXCEPT !.inputs = setSide(@, ioName, ioState.side)]
             ELSE n

\* the sides of the entries of the parsed state, assigned one after the other
RECURSIVE assignSides(_, _)
assignSides(node, entries) ==
    IF entries = <<>>
    THEN node
    ELSE LET ioName == entries[Len(entries)].key
             ioState == entries[Len(entries)].value
             n == assignSides(node, SubSeq(entries, 1, Len(entries) - 1))
         IN  IF "direction" \in DOMAIN ioState /\ "side" \in DOMAIN ioState
             THEN IF ioState.direction = "input" \/ ioState.direction = "inout"
                  THEN [n EXCEPT !.inputs = setSide(@, ioName, ioState.side)]
                  ELSE IF ioState.direction = "output"
                  THEN [n EXCEPT !.outputs = setSide(@, ioName, ioState.side)]
                  ELSE n
             ELSE n

\* load that hands the state to parentLoad before it looks at the discrepancies
loadChecksLate(node, state) ==
    LET parsedState == parseNodeState(state)
        errors == detectDiscrepancies(parsedState, node.inputs, node.outputs)
        known == [parsedState EXCEPT
                     !.inputs = SelectSeq(@, LAMBDA e : hasOwnProperty(node.inputs, e.key)),
                     !.outputs = SelectSeq(@, LAMBDA e : hasOwnProperty(node.outputs, e.key))]
        n1 == parentLoad(node, known)
    IN  IF errors # <<>>
        THEN [node |-> n1, returned |-> errors, calls |-> <<"parentLoad">>]
        ELSE LET n2 == assignSides(n1, Spread(parsedState.inputs, parsedState.outputs))
                 n3 == IF "position" \notin DOMAIN state \/ state.position = undefined
                       THEN [n2 EXCEPT !.position = undefined] ELSE n2
             IN  [node |-> n3, returned |-> <<>>, calls |-> <<"parentLoad">>]

\* this.load: the node afterwards, what load returns, and the calls it made
load(node, state) ==
    LET parsedState == parseNodeState(state)
        errors == detectDiscrepancies(parsedState, node.inputs, node.outputs)
    IN  IF errors # <<>>
        THEN [node |-> node, returned |-> errors, calls |-> <<>>]
        ELSE LET n1 == parentLoad(node, parsedState)
                 n2 == assignSides(n1, Spread(parsedState.inputs, parsedState.outputs))
                 n3 == IF "position" \notin DOMAIN state \/ state.position = undefined
                       THEN [n2 EXCEPT !.position = undefined] ELSE n2
             IN  [node |-> n3, returned |-> <<>>, calls |-> <<"parentLoad">>]

(* ---------------------------------------------------------------------- *)
(* The portable states a node is asked to load                            *)
(* ---------------------------------------------------------------------- *)
opposite(side) == IF side = "left" THEN "right" ELSE "left"

\* the saved state as another editor session left it: other ids, the ports
\* moved to the other side, other values, title and position
Edited(state) ==
    [state EXCEPT
        !.id = "n2",
        !.name = "renamed",
        !.position = "(3, 4)",
        !.interfaces = [i \in DOMAIN @ |->
                           [@[i] EXCEPT !.id = "e" \o ToString(i), !.side = opposite(@)]],
        !.properties = [i \in DOMAIN @ |->
                           [@[i] EXCEPT !.id = "f" \o ToString(i), !.value = "7"]]]

\* the saved state without the optional fields: no side, no position
Bare(state) ==
    [type |-> state.type,
     id |-> state.id,
     name |-> state.name,
     interfaces |-> [i \in DOMAIN state.interfaces |->
                        [name |-> state.interfaces[i].name,
                         id |-> state.interfaces[i].id,
                         direction |-> state.interfaces[i].direction]],
     properties |-> state.properties]

\* an interface and a property that no node type of the model declares
UnknownInterface(d) == [name |-> "zz", id |-> "u1", direction |-> d, side |-> "left"]
UnknownProperty == [name |-> "zz", id |-> "u2", value |-> "1"]

\* the state with only the first of its interfaces and of its properties
Omitting(state) ==
    [state EXCEPT !.interfaces = SubSeq(@, 1, 1), !.properties = SubSeq(@, 1, 1)]

\* states whose interfaces and properties the node declares
KnownStates(node) ==
    LET saved == save(node)
    IN  {saved, Edited(saved), Bare(saved), Omitting(Edited(saved))}

\* states with an interface or a property the node does not declare: an
\* unknown name at the end or at the start of the list, or a declared name
\* under another direction
UnknownStates(node) ==
    LET saved == save(node)
    IN  {[s EXCEPT !.interfaces = Append(@, UnknownInterface(d))] :
            s \in {saved, Edited(saved)}, d \in Directions}
        \cup {[s EXCEPT !.interfaces = <<UnknownInterface(d)>> \o @] :
                 s \in {saved, Edited(saved)}, d \in Directions}
        \cup {[s EXCEPT !.properties = Append(@, UnknownProperty)] :
                 s \in {saved, Edited(saved)}}
        \cup {[s EXCEPT !.interfaces =
                  [i \in DOMAIN @ |-> IF i = 1 THEN [@[i] EXCEPT !.direction = "output"]
                                               ELSE @[i]]] :
                 s \in {Edited(saved)}}

PortableStates(node) == KnownStates(node) \cup UnknownStates(node)

(* ---------------------------------------------------------------------- *)
(* NodeSpec: one node of a built type is edited, saved and loaded         *)
(* ---------------------------------------------------------------------- *)
NodeInit ==
    /\ ManagerIdle
    /\ interfaces = SampleInterfaces
    /\ properties = SampleProperties
    /\ nodeType = NodeFactory("Filter", "Filter node", interfaces, properties)
    /\ instance = newNode(nodeType)
    /\ lastCall = [op |-> "new"]
    /\ template = [built |-> FALSE]
    /\ graph = [built |-> FALSE]

PropertyKeys(node) == {node.inputs[i].key : i \in {j \in DOMAIN node.inputs :
                                                      ~node.inputs[j].value.port}}

\* the user types a value into a property of the node
SetValue(key, value) ==
    /\ key \in PropertyKeys(instance)
    /\ instance' = [instance EXCEPT
                       !.inputs = [i \in DOMAIN @ |->
                                      IF @[i].key = key
                                      THEN [key |-> key, value |-> With(@[i].value, "value", value)]
                                      ELSE @[i]]]
    /\ lastCall' = [op |-> "setValue"]
    /\ UNCHANGED <<interfaces, properties, nodeType>>
    /\ UNCHANGED <<vars, graphVars>>

\* the user moves a port of the node to the other side
SwitchSide(key) ==
    /\ \/ /\ hasOwnProperty(instance.inputs, key)
          /\ Get(instance.inputs, key).port
          /\ instance' = [instance EXCEPT
                             !.inputs = setSide(@, key, opposite(Get(instance.inputs, key).side))]
       \/ /\ hasOwnProperty(instance.outputs, key)
          /\ instance' = [instance EXCEPT
                             !.outputs = setSide(@, key, opposite(Get(instance.outputs, key).side))]
    /\ lastCall' = [op |-> "switchSide"]
    /\ UNCHANGED <<interfaces, properties, nodeType>>
    /\ UNCHANGED <<vars, graphVars>>

\* the editor saves the node
Save ==
    /\ lastCall' = [op |-> "save", returned |-> save(instance)]
    /\ UNCHANGED <<interfaces, properties, nodeType, instance>>
    /\ UNCHANGED <<vars, graphVars>>

\* the editor loads a state into the node
Load(state) ==
    /\ LET r == load(instance, state)
       IN  /\ instance' = r.node
           /\ lastCall' = [op |-> "load", state |-> state, returned |-> r.returned,
                           calls |-> r.calls]
    /\ UNCHANGED <<interfaces, properties, nodeType>>
    /\ UNCHANGED <<vars, graphVars>>

NodeNext ==
    \/ \E key \in {"property_a", "property_b"} : SetValue(key, "7")
    \/ \E key \in {"input_a", "output_out_1"} : SwitchSide(key)
    \/ Save
    \/ \E state \in PortableStates(instance) : Load(state)

NodeSpec == NodeInit /\ [][NodeNext]_<<vars, nodeVars, graphVars>>

(* ---------------------------------------------------------------------- *)
(* C13, C14: load is all or nothing; load after save                      *)
(* ---------------------------------------------------------------------- *)
Contains(s, sub) == \E i \in 1..(Len(s) - Len(sub) + 1) : SubSeq(s, i, i + Len(sub) - 1) = sub

LiveKeys(node) == ObjectKeys(node.inputs) \cup ObjectKeys(node.outputs)

\* the keys a portable state names: {direction}_{name} of its interfaces and
\* property_{name} of its properties
NamedKeys(state) ==
    {KeyOf(state.interfaces[i].direction, state.interfaces[i].name) :
        i \in DOMAIN state.interfaces}
    \cup {KeyOf("property", state.properties[i].name) : i \in DOMAIN state.properties}

Loaded(call) == call.op = "load"

PortsOf(obj) == {obj[i].key : i \in {j \in DOMAIN obj : obj[j].value.port}}

\* load has just been handed what save returns for the node as it was
RoundTrip == Loaded(lastCall') /\ lastCall'.state = save(instance)

\* the ids and sides of the ports and the ids of the properties are as before,
\* and the keys the saved state names are the keys of the node
RoundTripKeepsPorts ==
    /\ lastCall'.returned = <<>>
    /\ NamedKeys(lastCall'.state) = LiveKeys(instance)
    /\ LiveKeys(instance') = LiveKeys(instance)
    /\ \A key \in PortsOf(instance.inputs) :
          /\ Get(instance'.inputs, key).id = Get(instance.inputs, key).id
          /\ Get(instance'.inputs, key).side = Get(instance.inputs, key).side
    /\ \A key \in PortsOf(instance.outputs) :
          /\ Get(instance'.outputs, key).id = Get(instance.outputs, key).id
          /\ Get(instance'.outputs, key).side = Get(instance.outputs, key).side
    /\ \A key \in PropertyKeys(instance) :
          Get(instance'.inputs, key).id = Get(instance.inputs, key).id

\* C14 as stated: load(save(node)) reports no discrepancy and leaves every port
\* id, every port side and every property value as it was, the value undefined
\* included; the keys rebuilt from the saved names are the keys of the node.
C14_LoadAfterSaveIsIdentity ==
    [][RoundTrip
       => /\ RoundTripKeepsPorts
          /\ \A key \in PropertyKeys(instance) :
                Get(instance'.inputs, key).value = Get(instance.inputs, key).value
      ]_<<vars, nodeVars, graphVars>>

\* C14 amended: the same, but a property whose value was undefined holds null
\* afterwards.
C14_LoadAfterSaveKeepsDefinedValues ==
    [][RoundTrip
       => /\ RoundTripKeepsPorts
          /\ \A key \in PropertyKeys(instance) :
                Get(instance'.inputs, key).value =
                    IF Get(instance.inputs, key).value = undefined
                    THEN null
                    ELSE Get(instance.inputs, key).value
      ]_<<vars, nodeVars, graphVars>>

\* the node has loaded what it saved: the port its user moved is where it was
\* put, and the property that had no value holds null
C14_Witness ==
    /\ Loaded(lastCall)
    /\ lastCall.returned = <<>>
    /\ lastCall.state = save(instance)
    /\ instance.id = "n1"
    /\ Get(instance.outputs, "output_out_1").side = "right"
    /\ Get(instance.inputs, "property_a").value = null
    /\ Get(instance.inputs, "property_b").value = "7"

(* ====================================================================== *)
(* Subgraphs: the template SubgraphFactory builds, and the interfaces     *)
(* of a subgraph that are exposed and privatized in the editor            *)
(* ====================================================================== *)
\* nodes the user may drag from the node browser into the subgraph
MaxAdded == 1

\* uuidv4(): an id that is none of the ids in use
uuidv4(used) ==
    "u" \o ToString(CHOOSE k \in 1..(Cardinality(used) + 1) :
                        /\ "u" \o ToString(k) \notin used
                        /\ \A j \in 1..(k - 1) : "u" \o ToString(j) \in used)

\* interfaces.filter(..).map(..) giving every record a new id
RECURSIVE exposedInterfacesAnew(_, _, _)
exposedInterfacesAnew(interfs, dirs, used) ==
    IF interfs = <<>>
    THEN <<>>
    ELSE LET interf == interfs[Len(interfs)]
             before == exposedInterfacesAnew(SubSeq(interfs, 1, Len(interfs) - 1), dirs, used)
             taken == used \cup {before[i].id : i \in DOMAIN before}
         IN  IF interf.direction \in dirs
             THEN Append(before,
                         [id |-> uuidv4(taken),
                          nodeInterfaceId |-> interf.nodeInterface,
                          name |-> interf.name,
                          direction |-> interf.direction])
             ELSE before

\* interfaces.filter(..).map(..): the records of the directions dirs, each with
\* its id or with a new one
RECURSIVE exposedInterfaces(_, _, _)
exposedInterfaces(interfs, dirs, used) ==
    IF interfs = <<>>
    THEN <<>>
    ELSE LET interf == interfs[Len(interfs)]
             before == exposedInterfaces(SubSeq(interfs, 1, Len(interfs) - 1), dirs, used)
             taken == used \cup {before[i].id : i \in DOMAIN before}
         IN  IF interf.direction \in dirs
             THEN Append(before,
                         [id |-> IF "id" \in DOMAIN interf THEN interf.id ELSE uuidv4(taken),
                          nodeInterfaceId |-> interf.nodeInterface,
                          name |-> interf.name,
                          direction |-> interf.direction])
             ELSE before

\* the state SubgraphFactory hands to new GraphTemplate(state, editor)
SubgraphFactory(nodes, connections, interfs, name, type) ==
    LET given == {interfs[i].id : i \in {j \in DOMAIN interfs : "id" \in DOMAIN interfs[j]}}
        inputs == exposedInterfaces(interfs, {"input", "inout"}, given)
        outputs == exposedInterfaces(interfs, {"output"},
                                     given \cup {inputs[i].id : i \in DOMAIN inputs})
    IN  [id |-> type,
         nodes |-> [i \in DOMAIN nodes |-> parseNodeState(nodes[i])],
         connections |-> connections,
         inputs |-> inputs,
         outputs |-> outputs,
         name |-> name]

\* the subgraph of the sample dataflow: two nodes, one connection between
\* them, four of their five ports exposed
SubgraphNodes ==
    <<[type |-> "Test node", id |-> "s1", name |-> "Test node #1",
       interfaces |-> <<[name |-> "in", id |-> "p1", direction |-> "input", side |-> "left"],
                        [name |-> "out", id |-> "p2", direction |-> "output", side |-> "right"],
                        [name |-> "aux", id |-> "p3", direction |-> "inout", side |-> "left"]>>,
       properties |-> <<>>],
      [type |-> "Test node", id |-> "s2", name |-> "Test node #2",
       interfaces |-> <<[name |-> "in", id |-> "q1", direction |-> "input", side |-> "left"],
                        [name |-> "out", id |-> "q2", direction |-> "output", side |-> "right"]>>,
       properties |-> <<>>]>>

SubgraphConnections == <<[id |-> "k1", from |-> "p2", to |-> "q1"]>>

SubgraphInterfaces ==
    <<[name |-> "pub_in", nodeInterface |-> "p1", direction |-> "input", id |-> "x1"],
      [name |-> "pub_out", nodeInterface |-> "q2", direction |-> "output", id |-> "x2"],
      [name |-> "pub_aux", nodeInterface |-> "p3", direction |-> "inout"],
      [name |-> "pub_mid", nodeInterface |-> "p2", direction |-> "output"]>>

\* the top-level graph of the sample dataflow: the subgraph node and three
\* nodes beside it, connected to exposed interfaces; the editor shows the
\* nodes of the graph that is being edited
TopLevelGraph ==
    [built |-> TRUE,
     editing |-> "top",
     displayed |-> <<"Test subgraph node #1", "t1", "t2", "t3">>,
     nodes |-> <<"Test subgraph node #1", "t1", "t2", "t3">>,
     connections |-> <<[id |-> "c1", from |-> "x2", to |-> "t1.in"],
                       [id |-> "c2", from |-> "t2.out", to |-> "x1"],
                       [id |-> "c3", from |-> "t3.out", to |-> "u1"]>>]

\* new GraphTemplate(state, editor): the template keeps the state it is given,
\* and remembers the entries of the interfaces privatized since
GraphTemplate(state) ==
    With(With(state, "built", TRUE), "privatized", {})

\* the ports of the nodes of a template
PortsIn(tpl) ==
    UNION {{n.inputs[i].value : i \in DOMAIN n.inputs}
             \cup {n.outputs[i].value : i \in DOMAIN n.outputs}
           : n \in {tpl.nodes[j] : j \in DOMAIN tpl.nodes}}

\* the entries of the exposed-interface list of a template
ExposedIn(tpl) ==
    {tpl.inputs[i] : i \in DOMAIN tpl.inputs} \cup {tpl.outputs[i] : i \in DOMAIN tpl.outputs}

PrivatizedIn(tpl) == tpl.privatized

IsExposed(tpl, port) == \E e \in ExposedIn(tpl) : e.nodeInterfaceId = port.id

\* every id of the template and of the graph around it
UsedIds(tpl, g) ==
    {e.id : e \in ExposedIn(tpl) \cup PrivatizedIn(tpl)}
        \cup {p.id : p \in PortsIn(tpl)}
        \cup {tpl.nodes[i].id : i \in DOMAIN tpl.nodes}
        \cup {g.connections[i].from : i \in DOMAIN g.connections}
        \cup {g.connections[i].to : i \in DOMAIN g.connections}

without(seq, x) == SelectSeq(seq, LAMBDA e : e # x)

\* 'Expose Interface' that gives the port a new entry whatever it had before
ExposeInterfaceAnew(tpl, g, port) ==
    LET entry == [id |-> uuidv4(UsedIds(tpl, g)),
                  nodeInterfaceId |-> port.id,
                  name |-> port.name,
                  direction |-> port.direction]
        kept == {e \in tpl.privatized : e.nodeInterfaceId # port.id}
    IN  IF port.direction = "output"
        THEN [tpl EXCEPT !.outputs = Append(@, entry), !.privatized = kept]
        ELSE [tpl EXCEPT !.inputs = Append(@, entry), !.privatized = kept]

\* 'Expose Interface' on a port of the subgraph: the entry the port had when it
\* was privatized comes back, a port never exposed gets an entry with a new id
ExposeInterface(tpl, g, port) ==
    LET remembered == {e \in PrivatizedIn(tpl) : e.nodeInterfaceId = port.id}
        entry == IF remembered # {}
                 THEN CHOOSE e \in remembered : TRUE
                 ELSE [id |-> uuidv4(UsedIds(tpl, g)),
                       nodeInterfaceId |-> port.id,
                       name |-> port.name,
                       direction |-> port.direction]
        kept == {e \in tpl.privatized : e.nodeInterfaceId # port.id}
    IN  IF port.direction = "output"
        THEN [tpl EXCEPT !.outputs = Append(@, entry), !.privatized = kept]
        ELSE [tpl EXCEPT !.inputs = Append(@, entry), !.privatized = kept]

\* 'Privatize Interface' that deletes the port with its entry
PrivatizeInterfaceDeletesPort(tpl, port) ==
    LET entry == CHOOSE e \in ExposedIn(tpl) : e.nodeInterfaceId = port.id
        stripped(obj) == SelectSeq(obj, LAMBDA kv : kv.value.id # port.id)
    IN  [tpl EXCEPT !.inputs = without(@, entry),
                    !.outputs = without(@, entry),
                    !.privatized = @ \cup {entry},
                    !.nodes = [i \in DOMAIN @ |->
                                  [@[i] EXCEPT !.inputs = stripped(@),
                                               !.outputs = stripped(@)]]]

\* 'Privatize Interface' on an exposed port: its entry leaves the list and is
\* remembered
PrivatizeInterface(tpl, port) ==
    LET entry == CHOOSE e \in ExposedIn(tpl) : e.nodeInterfaceId = port.id
    IN  [tpl EXCEPT !.inputs = without(@, entry),
                    !.outputs = without(@, entry),
                    !.privatized = @ \cup {entry}]

\* the node the node browser gives: the k-th node of the subgraph, with one port
BrowserNode(k) ==
    [type |-> "Test node", id |-> "s" \o ToString(k), name |-> "Test node #" \o ToString(k),
     interfaces |-> <<[name |-> "out", id |-> "r" \o ToString(k),
                       direction |-> "output", side |-> "right"]>>,
     properties |-> <<>>]

\* the names of the nodes of a template, as the editor shows them
NodesIn(tpl) == [i \in DOMAIN tpl.nodes |-> tpl.nodes[i].title]

\* 'Edit Subgraph' showing the nodes of the subgraph beside those of the graph
enterSubgraphKeepsGraph(g, tpl) ==
    [g EXCEPT !.editing = "subgraph", !.displayed = g.nodes \o NodesIn(tpl)]

\* 'Edit Subgraph' on the subgraph node: the editor shows the nodes of the
\* template
enterSubgraph(g, tpl) ==
    [g EXCEPT !.editing = "subgraph", !.displayed = NodesIn(tpl)]

\* 'Return from subgraph editor': the editor shows the top-level graph again
returnFromSubgraph(g) ==
    [g EXCEPT !.editing = "top", !.displayed = g.nodes]

\* what the subgraph node shows and what the parent graph holds, before a call
Shown(tpl, g) == [exposed |-> ExposedIn(tpl), connections |-> g.connections]

SubgraphInit ==
    /\ ManagerIdle
    /\ interfaces = <<>>
    /\ properties = <<>>
    /\ nodeType = [built |-> FALSE]
    /\ instance = [created |-> FALSE]
    /\ lastCall = [op |-> "none"]
    /\ template = GraphTemplate(SubgraphFactory(SubgraphNodes, SubgraphConnections,
                                                SubgraphInterfaces, "Test subgraph",
                                                "Test subgraph node"))
    /\ graph = TopLevelGraph

Expose(port) ==
    /\ template.built
    /\ graph.editing = "subgraph"
    /\ port \in PortsIn(template)
    /\ ~IsExposed(template, port)
    /\ template' = ExposeInterface(template, graph, port)
    /\ lastCall' = [op |-> "expose", port |-> port.id, before |-> Shown(template, graph)]
    /\ UNCHANGED <<vars, interfaces, properties, nodeType, instance, graph>>

Privatize(port) ==
    /\ template.built
    /\ graph.editing = "subgraph"
    /\ port \in PortsIn(template)
    /\ IsExposed(template, port)
    /\ template' = PrivatizeInterface(template, port)
    /\ lastCall' = [op |-> "privatize", port |-> port.id, before |-> Shown(template, graph)]
    /\ UNCHANGED <<vars, interfaces, properties, nodeType, instance, graph>>

AddNode ==
    /\ template.built
    /\ graph.editing = "subgraph"
    /\ Len(template.nodes) < Len(SubgraphNodes) + MaxAdded
    /\ template' = [template EXCEPT
                       !.nodes = Append(@, parseNodeState(BrowserNode(Len(@) + 1)))]
    /\ graph' = [graph EXCEPT !.displayed = NodesIn(template')]
    /\ lastCall' = [op |-> "addNode"]
    /\ UNCHANGED <<vars, interfaces, properties, nodeType, instance>>

\* the user enters the subgraph node
Enter ==
    /\ template.built
    /\ graph.editing = "top"
    /\ graph' = enterSubgraph(graph, template)
    /\ UNCHANGED <<vars, nodeVars, template>>

\* the user leaves the subgraph
Leave ==
    /\ template.built
    /\ graph.editing = "subgraph"
    /\ graph' = returnFromSubgraph(graph)
    /\ UNCHANGED <<vars, nodeVars, template>>

SubgraphNext ==
    \/ \E port \in PortsIn(template) : Expose(port)
    \/ \E port \in PortsIn(template) : Privatize(port)
    \/ AddNode
    \/ Enter
    \/ Leave

SubgraphSpec == SubgraphInit /\ [][SubgraphNext]_<<vars, nodeVars, graphVars>>

(* ---------------------------------------------------------------------- *)
(* Properties of exposing and privatizing                                 *)
(* ---------------------------------------------------------------------- *)
\* the ends of the parent-level connections that are on the subgraph node
AttachedIds(g) ==
    {g.connections[i].from : i \in DOMAIN g.connections}
        \cup {g.connections[i].to : i \in DOMAIN g.connections}

\* the entry under which a port is exposed
EntryOf(exposed, portId) == {e \in exposed : e.nodeInterfaceId = portId}

\* an 'Expose Interface' on the port the step before privatized
ReExposes ==
    /\ lastCall.op = "privatize"
    /\ lastCall'.op = "expose"
    /\ lastCall'.port = lastCall.port

\* C19: privatizing an exposed interface of a subgraph and exposing the same
\* interface again gives it the identifier it had, gives the subgraph node the
\* number of exposed interfaces it had, and leaves the connections of the
\* parent graph, their number and their identities, as they were.
C19_ReExposeRestoresIdentifier ==
    [][ReExposes =>
          /\ EntryOf(ExposedIn(template'), lastCall.port)
                 = EntryOf(lastCall.before.exposed, lastCall.port)
          /\ {e.id : e \in ExposedIn(template')} = {e.id : e \in lastCall.before.exposed}
          /\ Cardinality(ExposedIn(template')) = Cardinality(lastCall.before.exposed)
          /\ Len(template'.inputs) + Len(template'.outputs)
                 = Cardinality(lastCall.before.exposed)
          /\ graph'.connections = lastCall.before.connections
    ]_<<vars, nodeVars, graphVars>>

\* pub_aux, whose identifier SubgraphFactory generated and which a connection
\* of the parent graph ends on, was privatized and is exposed again
C19_Witness ==
    /\ lastCall.op = "expose"
    /\ lastCall.port = "p3"
    /\ Cardinality(lastCall.before.exposed) = Len(SubgraphInterfaces) - 1
    /\ Cardinality(ExposedIn(template)) = Len(SubgraphInterfaces)
    /\ \E e \in ExposedIn(template) :
           /\ e.nodeInterfaceId = "p3"
           /\ e.id \in AttachedIds(graph)

\* a step that exposes or privatizes an interface
Toggles == lastCall' # lastCall /\ lastCall'.op \in {"expose", "privatize"}

\* C20: exposing or privatizing an interface of a subgraph adds one entry to the
\* template's list of exposed interfaces or removes one from it, and nothing
\* else: the other entries, the nodes of the subgraph, their ports and the
\* connections inside the subgraph stay as they are.
C20_ToggleOnlyEditsExposedList ==
    [][Toggles =>
          /\ lastCall'.op = "expose" =>
                 /\ ExposedIn(template) \subseteq ExposedIn(template')
                 /\ Len(template'.inputs) + Len(template'.outputs)
                        = Len(template.inputs) + Len(template.outputs) + 1
                 /\ Cardinality(ExposedIn(template')) = Cardinality(ExposedIn(template)) + 1
          /\ lastCall'.op = "privatize" =>
                 /\ ExposedIn(template') \subseteq ExposedIn(template)
                 /\ Len(template'.inputs) + Len(template'.outputs)
                        = Len(template.inputs) + Len(template.outputs) - 1
                 /\ Cardinality(ExposedIn(template')) = Cardinality(ExposedIn(template)) - 1
          /\ template'.nodes = template.nodes
          /\ PortsIn(template') = PortsIn(template)
          /\ template'.connections = template.connections
          /\ template'.id = template.id
          /\ template'.name = template.name
          /\ graph' = graph
    ]_<<vars, nodeVars, graphVars>>

\* the port of a node added to the subgraph is exposed beside the first four,
\* and a port with a connection inside the subgraph is privatized
C20_Witness ==
    /\ Len(template.nodes) > Len(SubgraphNodes)
    /\ Cardinality(ExposedIn(template)) = Len(SubgraphInterfaces)
    /\ \E e \in ExposedIn(template) : e.nodeInterfaceId = "r3"
    /\ \E e \in template.privatized : e.nodeInterfaceId = "p2"
    /\ lastCall.op \in {"expose", "privatize"}
    /\ template.connections = SubgraphConnections

(* ====================================================================== *)
(* C23: the reconnection attempt of initializeConnection                  *)
(* ====================================================================== *)
FetchesOf(evs, url) == {i \in DOMAIN evs : evs[i].type = "fetch" /\ evs[i].url = url}

\* the macrotask that led to this state ran initializeConnection up to its
\* connect request: called from the interface, or by checkStatus on a 503 probe
BeganReconnection(st) ==
    \/ st.kind = "connect"
    \/ Handled(st, fCheckStatusProbe) /\ st.status = ServiceUnavailable

\* the macrotask that led to this state handled the response to the connect
\* request of an initializeConnection
HandledReconnection(st) ==
    /\ Handled(st, fOpenTCP)
    /\ \E i \in DOMAIN st.stack : st.stack[i] = fInitializeConnectionOpen

\* C23: initializeConnection sets connected to false and then issues the connect
\* request, and no request_specification with it; when the response to the
\* connect request has been handled it issues request_specification only if the
\* connect request succeeded.
C23_ReconnectionGuarded ==
    [][/\ BeganReconnection(step')
          => /\ ~externalApplicationConnected'
             /\ Cardinality(FetchesOf(events', "connect")) = 1
             /\ FetchesOf(events', "request_specification") = {}
       /\ HandledReconnection(step')
          => /\ FetchesOf(events', "connect") = {}
             /\ FetchesOf(events', "request_specification") # {}
                    => (ResponseOk(step'.status) /\ externalApplicationConnected')
    ]_vars

(* ====================================================================== *)
(* C27: the poll timer is never leaked or duplicated                      *)
(* ====================================================================== *)
\* C27: every interval created by setInterval and not cleared is the one
\* recorded in idStatusInterval, so at most one poll timer exists, whatever
\* the interleaving of operations, recoveries and ticks.
C27_OnePollTimer ==
    /\ intervals = IF idStatusInterval = Null THEN {} ELSE {idStatusInterval}
    /\ Cardinality(intervals) <= 1

\* a recovery started by checkStatus has gone through its nested
\* invokeFetchAction calls to the end, beside a pending call from the
\* interface, and the timer runs
C27_Witness ==
    /\ step.kind = "response"
    /\ Len(step.stack) = 5
    /\ step.stack[1] = fCheckStatusRecover
    /\ UserStacks # {}
    /\ idStatusInterval # Null
    /\ intervals = {idStatusInterval}

(* ====================================================================== *)
(* C28: the success notices of requestSpecification                       *)
(* ====================================================================== *)
SuccessNotices == {<<"Specification loaded">>, <<"Loaded successfully">>}

\* C28: requestSpecification raises the alert 'Specification loaded' or
\* 'Loaded successfully' only when it has applied the received specification
\* to the editor in the same call.
C28_SuccessNoticeOnlyWhenApplied ==
    [][Handled(step', fRequestSpecification)
       => ((\E a \in Alerts(events') : a.msg \in SuccessNotices)
              => "updateEditorSpecification" \in Calls(events'))]_vars

(* ====================================================================== *)
(* C24, C25, C29: what save writes down, the sides after a load, and what *)
(* load reports                                                           *)
(* ====================================================================== *)
Saved(call) == call.op = "save"

\* the slots of a node, inputs and outputs, by their keys
SlotAt(node, key) ==
    IF hasOwnProperty(node.inputs, key) THEN Get(node.inputs, key) ELSE Get(node.outputs, key)

PortSlots(node) == PortsOf(node.inputs) \cup PortsOf(node.outputs)

\* the places of the saved list at which the record rec stands
PlacesOf(list, rec) == {i \in DOMAIN list : list[i] = rec}

\* C24: save writes every port of the node down exactly once in interfaces, as
\* {name, id, direction, side} with {direction}_{name} the key of the port, and
\* every property exactly once in properties, as {name, id, value} with
\* property_{name} its key and null for the value undefined; nothing else is in
\* the two lists, and the title is written down under 'name'.
C24_SavePartitionsSlots ==
    [][Saved(lastCall')
       => LET node == instance
              saved == lastCall'.returned
          IN  /\ \A key \in PortSlots(node) :
                    \E i \in DOMAIN saved.interfaces :
                        /\ KeyOf(saved.interfaces[i].direction, saved.interfaces[i].name) = key
                        /\ saved.interfaces[i] =
                               [name |-> saved.interfaces[i].name,
                                id |-> SlotAt(node, key).id,
                                direction |-> SlotAt(node, key).direction,
                                side |-> SlotAt(node, key).side]
                        /\ PlacesOf(saved.interfaces, saved.interfaces[i]) = {i}
              /\ Len(saved.interfaces) = Cardinality(PortSlots(node))
              /\ \A key \in PropertyKeys(node) :
                    \E i \in DOMAIN saved.properties :
                        /\ KeyOf("property", saved.properties[i].name) = key
                        /\ saved.properties[i] =
                               [name |-> saved.properties[i].name,
                                id |-> SlotAt(node, key).id,
                                value |-> IF SlotAt(node, key).value = undefined
                                          THEN null
                                          ELSE SlotAt(node, key).value]
                        /\ PlacesOf(saved.properties, saved.properties[i]) = {i}
              /\ Len(saved.properties) = Cardinality(PropertyKeys(node))
              /\ saved.name = node.title
              /\ "title" \notin DOMAIN saved
    ]_<<vars, nodeVars, graphVars>>

\* a node with ports among its inputs and its outputs, a property without a
\* value and a property with one, was saved after a port was moved
C24_Witness ==
    /\ Saved(lastCall)
    /\ PortsOf(instance.inputs) # {}
    /\ PortsOf(instance.outputs) # {}
    /\ \E i \in DOMAIN lastCall.returned.properties :
           lastCall.returned.properties[i].value = null
    /\ \E i \in DOMAIN lastCall.returned.properties :
           lastCall.returned.properties[i].value = "7"
    /\ \E i \in DOMAIN lastCall.returned.interfaces :
           /\ lastCall.returned.interfaces[i].name = "out_1"
           /\ lastCall.returned.interfaces[i].side
                  # Get(nodeType.outputs, "output_out_1").side

\* the interface records of a state, by the key they name
RecordsOf(state, key) ==
    {state.interfaces[i] : i \in {j \in DOMAIN state.interfaces :
        KeyOf(state.interfaces[j].direction, state.interfaces[j].name) = key}}

LoadedWell(call) == Loaded(call) /\ call.returned = <<>>

\* C25: after a load that reports nothing, a port whose record carries a side
\* has that side, whatever the side the node type gives it, and a port whose
\* record carries none, or that has no record, has the side it had.
C25_LoadAppliesExplicitSides ==
    [][LoadedWell(lastCall')
       => \A key \in PortSlots(instance) :
             LET given == {rec \in RecordsOf(lastCall'.state, key) : "side" \in DOMAIN rec}
             IN  /\ \A rec \in given : SlotAt(instance', key).side = rec.side
                 /\ given = {} => SlotAt(instance', key).side = SlotAt(instance, key).side
    ]_<<vars, nodeVars, graphVars>>

\* an output has taken from the state a side that is neither the side of the
\* node type nor the side it had
C25_Witness ==
    /\ LoadedWell(lastCall)
    /\ \E rec \in RecordsOf(lastCall.state, "output_out_1") :
           /\ "side" \in DOMAIN rec
           /\ rec.side # Get(nodeType.outputs, "output_out_1").side
           /\ Get(instance.outputs, "output_out_1").side = rec.side
    /\ \E rec \in RecordsOf(lastCall.state, "input_a") :
           /\ "side" \in DOMAIN rec
           /\ Get(instance.inputs, "input_a").side = rec.side
           /\ rec.side # Get(nodeType.inputs, "input_a").side

PropertySlotKeys == {nodeType.inputs[i].key : i \in {j \in DOMAIN nodeType.inputs :
                                                       ~nodeType.inputs[j].value.port}}

\* the properties of the list that NodeFactory recognizes
Recognized(ps) == {ps[i] : i \in {j \in DOMAIN ps : ps[j].type \in PropertyTypes}}

\* the entry e is the one that gives the name n its port: no dropped inout
GivesPort(ios, e, n) ==
    n \in NamesOf(e) /\ ~(e.direction = "inout" /\ DeclaredInputOrOutput(ios, n))

\* C30: in a built node type no key is the key of a port and of a property; a
\* property and a port of the same name are both in the node type, the
\* property under property_{name} with its default and the port under
\* {direction}_{name} as its entry describes it, and no port and no recognized
\* property of the two lists is missing from the node type.
C30_PortAndPropertyKeysApart ==
    nodeType.built
        => /\ PropertySlotKeys \cap PortKeys = {}
           /\ PropertySlotKeys = {KeyOf("property", p.name) : p \in Recognized(properties)}
           /\ \A p \in Recognized(properties) :
                 /\ Get(nodeType.inputs, KeyOf("property", p.name)).value = DeclaredDefault(p)
                 /\ \A e \in Entries(interfaces) :
                       GivesPort(interfaces, e, p.name)
                           => /\ KeyOf(e.direction, p.name) \in PortKeys
                              /\ PortAt(KeyOf(e.direction, p.name)).port
                              /\ Inherits(e, p.name)
           /\ \A e \in Entries(interfaces) :
                 \A n \in NamesOf(e) :
                    GivesPort(interfaces, e, n)
                        => KeyOf(e.direction, n) \in PortKeys /\ Inherits(e, n)

\* an input and a property are both named a
C30_Witness ==
    /\ nodeType.built
    /\ \E e \in Entries(interfaces) : e.direction = "input" /\ e.name = "a"
                                       /\ "array" \notin DOMAIN e
    /\ \E p \in Recognized(properties) : p.name = "a" /\ "default" \in DOMAIN p
    /\ {"input_a", "property_a"} \subseteq ObjectKeys(nodeType.inputs)
    /\ Get(nodeType.inputs, "input_a").port
    /\ ~Get(nodeType.inputs, "property_a").port

(* ====================================================================== *)
(* TemplateSpec: SubgraphFactory on the interface records of a            *)
(* specification                                                          *)
(* ====================================================================== *)
\* interface records of a subgraph in a specification
MaxExposed == 3

\* the records a specification may hold for the ports of the sample subgraph:
\* without an id, and with one of two ids, one of them of the kind uuidv4 gives
ExposedRecords ==
    LET ports == PortsIn([nodes |-> [i \in DOMAIN SubgraphNodes |->
                                        parseNodeState(SubgraphNodes[i])]])
    IN  {[name |-> "pub_" \o p.name, nodeInterface |-> p.id, direction |-> p.direction] :
            p \in ports}
        \cup {[name |-> "pub_" \o p.name, nodeInterface |-> p.id, direction |-> p.direction,
               id |-> x] : p \in ports, x \in {"x1", "u1"}}

TemplateInit ==
    /\ ManagerIdle
    /\ interfaces \in SeqUpTo(ExposedRecords, MaxExposed)
    /\ properties = <<>>
    /\ nodeType = [built |-> FALSE]
    /\ instance = [created |-> FALSE]
    /\ lastCall = [op |-> "none"]
    /\ template = [built |-> FALSE]
    /\ graph = [built |-> FALSE]

\* the specification loader calls SubgraphFactory for the subgraph
BuildTemplate(connections) ==
    /\ ~template.built
    /\ template' = GraphTemplate(SubgraphFactory(SubgraphNodes, connections, interfaces,
                                                 "Test subgraph", "Test subgraph node"))
    /\ lastCall' = [op |-> "SubgraphFactory", connections |-> connections]
    /\ UNCHANGED <<vars, interfaces, properties, nodeType, instance, graph>>

TemplateNext == \E connections \in {<<>>, SubgraphConnections} : BuildTemplate(connections)

TemplateSpec == TemplateInit /\ [][TemplateNext]_<<vars, nodeVars, graphVars>>

(* ---------------------------------------------------------------------- *)
(* C26: the lists of the template                                         *)
(* ---------------------------------------------------------------------- *)
\* list holds the records recs, one entry for each and in their order, with
\* the ids the records carry
Exposes(list, recs) ==
    /\ Len(list) = Len(recs)
    /\ \A i \in DOMAIN recs :
          /\ DOMAIN list[i] = {"id", "nodeInterfaceId", "name", "direction"}
          /\ list[i].nodeInterfaceId = recs[i].nodeInterface
          /\ list[i].name = recs[i].name
          /\ list[i].direction = recs[i].direction
          /\ "id" \in DOMAIN recs[i] => list[i].id = recs[i].id

\* every id of the template but those of its lists of exposed interfaces
InnerIds(tpl) ==
    {p.id : p \in PortsIn(tpl)}
        \cup {tpl.nodes[i].id : i \in DOMAIN tpl.nodes}
        \cup {tpl.connections[i].id : i \in DOMAIN tpl.connections}
        \cup {tpl.id}

\* C26: the inputs of the template are the records of direction input or
\* inout and its outputs the records of direction output, one entry for each
\* record and in the order of the records; an entry has the id of its record
\* if the record carries one, and otherwise an id that no other entry and
\* nothing else in the template has; the connections are the ones given.
C26_TemplateListsFollowRecords ==
    lastCall.op = "SubgraphFactory"
        => LET ins == SelectSeq(interfaces, LAMBDA rec : rec.direction \in {"input", "inout"})
               outs == SelectSeq(interfaces, LAMBDA rec : rec.direction = "output")
               recs == ins \o outs
               all == template.inputs \o template.outputs
           IN  /\ Exposes(template.inputs, ins)
               /\ Exposes(template.outputs, outs)
               /\ \A i \in DOMAIN recs :
                     "id" \notin DOMAIN recs[i]
                         => /\ \A j \in DOMAIN all : j # i => all[j].id # all[i].id
                            /\ all[i].id \notin InnerIds(template)
               /\ template.connections = lastCall.connections
               /\ template.id = "Test subgraph node"
               /\ template.name = "Test subgraph"

\* an output record without an id stands before an inout record with the id
\* u1 and an input record without an id; connections were given
C26_Witness ==
    /\ lastCall.op = "SubgraphFactory"
    /\ lastCall.connections # <<>>
    /\ Len(interfaces) = 3
    /\ interfaces[1].direction = "output" /\ "id" \notin DOMAIN interfaces[1]
    /\ interfaces[2].direction = "inout" /\ "id" \in DOMAIN interfaces[2]
    /\ interfaces[2].id = "u1"
    /\ interfaces[3].direction = "input" /\ "id" \notin DOMAIN interfaces[3]
    /\ Len(template.inputs) = 2 /\ Len(template.outputs) = 1

(* ====================================================================== *)
(* C21: entering a subgraph and returning from it                         *)
(* ====================================================================== *)
Entered == graph.editing = "top" /\ graph'.editing = "subgraph"
Left == graph.editing = "subgraph" /\ graph'.editing = "top"

\* C21: on entering the subgraph node the editor shows the nodes of the
\* template, and on returning the nodes of the top-level graph as they were
\* when the subgraph was entered; no step taken inside the subgraph changes
\* the top-level graph, and a node added inside stays in the template, so it
\* is shown when the subgraph is entered again.
C21_EnterAndReturn ==
    [][/\ Entered => graph'.displayed = NodesIn(template)
       /\ Left => /\ graph'.displayed = TopLevelGraph.nodes
                  /\ graph'.displayed = graph.nodes
       /\ graph.built =>
             /\ graph'.nodes = graph.nodes
             /\ graph'.connections = graph.connections
             /\ Len(template'.nodes) >= Len(template.nodes)
             /\ SubSeq(template'.nodes, 1, Len(template.nodes)) = template.nodes
       /\ (graph.built /\ graph'.editing = "subgraph")
             => graph'.displayed = NodesIn(template')
    ]_<<vars, nodeVars, graphVars>>

\* the user has come back to the top-level graph from a subgraph in which a
\* node was added: the editor shows the four nodes of the top-level graph and
\* the template holds three
C21_Witness ==
    /\ graph.built
    /\ graph.editing = "top"
    /\ lastCall.op = "addNode"
    /\ Len(template.nodes) = Len(SubgraphNodes) + 1
    /\ graph.displayed = graph.nodes
    /\ Len(graph.displayed) = 4
====
